---------------------------- MODULE Spec2Model ----------------------------
(***************************************************************************)
(* Retargeting engine of Memoji-Remake: channel-binding resolution          *)
(* (blendshapes.ts), per-frame smoothing (blendshapes.ts) and the rig-load  *)
(* and frame callbacks of the AvatarModel component (AvatarPanel.tsx).      *)
(*                                                                         *)
(* JavaScript strings are TLA+ strings; a character is a string of length   *)
(* one, taken with SubSeq.  JavaScript numbers that carry amplitudes and    *)
(* rotations are exact rationals [n, d]; morph slots and counters are       *)
(* integers.                                                               *)
(***************************************************************************)
EXTENDS Integers, Sequences, FiniteSets, TLC

(***************************************************************************)
(* String primitives of the JavaScript runtime used by the source.          *)
(***************************************************************************)
UpperCaseLetters == "ABCDEFGHIJKLMNOPQRSTUVWXYZ"

LowerCaseLetters == "abcdefghijklmnopqrstuvwxyz"

DecimalDigits == "0123456789"

CharAt(s, i) == SubSeq(s, i, i)

\* 1-based position of character c in alphabet, 0 when absent
PositionIn(alphabet, c) ==
  IF \E i \in 1..Len(alphabet) : CharAt(alphabet, i) = c
  THEN CHOOSE i \in 1..Len(alphabet) : CharAt(alphabet, i) = c
  ELSE 0

\* the lower-case form of each upper-case letter
LowerCaseOf ==
  [c \in {CharAt(UpperCaseLetters, i) : i \in 1..Len(UpperCaseLetters)} |->
     CharAt(LowerCaseLetters, PositionIn(UpperCaseLetters, c))]

LowerChar(c) == IF c \in DOMAIN LowerCaseOf THEN LowerCaseOf[c] ELSE c

RECURSIVE toLowerCase(_)
\* String.prototype.toLowerCase
toLowerCase(s) ==
  IF Len(s) = 0 THEN ""
  ELSE LowerChar(CharAt(s, 1)) \o toLowerCase(SubSeq(s, 2, Len(s)))

\* String.prototype.includes
includes(s, sub) ==
  \E i \in 1..(Len(s) - Len(sub) + 1) : SubSeq(s, i, i + Len(sub) - 1) = sub

\* String.prototype.endsWith
endsWith(s, suffix) ==
  /\ Len(suffix) <= Len(s)
  /\ SubSeq(s, Len(s) - Len(suffix) + 1, Len(s)) = suffix

\* /^\d+$/.test(name)
IsDigitString(name) ==
  /\ Len(name) > 0
  /\ \A i \in 1..Len(name) : PositionIn(DecimalDigits, CharAt(name, i)) # 0

RECURSIVE NumberToString(_)
\* String(i) for a non-negative integer i
NumberToString(i) ==
  IF i < 10 THEN CharAt(DecimalDigits, i + 1)
  ELSE NumberToString(i \div 10) \o CharAt(DecimalDigits, (i % 10) + 1)

RECURSIVE StringToNumber(_)
\* numeric value of a digit string (the order of integer-like property keys)
StringToNumber(s) ==
  IF Len(s) = 0 THEN 0
  ELSE 10 * StringToNumber(SubSeq(s, 1, Len(s) - 1))
       + (PositionIn(DecimalDigits, CharAt(s, Len(s))) - 1)

(***************************************************************************)
(* A JavaScript object used as a dictionary (Record<string, number>) is the *)
(* sequence of its [key, value] properties in creation order, keys          *)
(* distinct.  A Map<string, number> is the same, in insertion order.        *)
(***************************************************************************)
\* an integer-like key ("0", "17"; no leading zero): enumerated first, ascending
IsArrayIndex(key) ==
  /\ IsDigitString(key)
  /\ Len(key) <= 9
  /\ (Len(key) = 1 \/ CharAt(key, 1) # "0")

\* a sequence given by a function on 1..n, as an explicit tuple
Array(s) == LET Every(x) == TRUE IN SelectSeq(s, Every)

RECURSIVE Ascending(_)
\* the numbers of a finite set in ascending order
Ascending(numbers) ==
  IF numbers = {} THEN <<>>
  ELSE LET least == CHOOSE m \in numbers : \A n \in numbers : m <= n
       IN  <<least>> \o Ascending(numbers \ {least})

\* the integer-like keys in ascending numeric order (an integer-like key is
\* the decimal form of its number)
AscendingKeys(keys) ==
  LET numbers == Ascending({StringToNumber(k) : k \in keys})
  IN  Array([i \in DOMAIN numbers |-> NumberToString(numbers[i])])

\* Object.keys(obj): integer-like keys ascending, then the others as created
ObjectKeys(obj) ==
  LET created == Array([i \in DOMAIN obj |-> obj[i].key])
      integerLike == {created[i] : i \in {j \in DOMAIN created : IsArrayIndex(created[j])}}
      IsOther(k) == k \notin integerLike
  IN  AscendingKeys(integerLike) \o SelectSeq(created, IsOther)

\* obj[key] !== undefined
Has(obj, key) == \E i \in DOMAIN obj : obj[i].key = key

\* obj[key], for a key the object has
Get(obj, key) == obj[CHOOSE i \in DOMAIN obj : obj[i].key = key].value

\* Map.prototype.set: replaces the value of a present key, else appends
MapSet(map, key, value) ==
  IF Has(map, key)
  THEN [i \in DOMAIN map |->
          IF map[i].key = key THEN [key |-> key, value |-> value] ELSE map[i]]
  ELSE Append(map, [key |-> key, value |-> value])

\* Array.prototype.indexOf: 0-based index of the first equal element, or -1
indexOf(array, x) ==
  IF \E i \in DOMAIN array : array[i] = x
  THEN (CHOOSE i \in DOMAIN array :
          array[i] = x /\ \A j \in 1..(i - 1) : array[j] # x) - 1
  ELSE -1

(***************************************************************************)
(* blendshapes.ts: the channel vocabulary and the alias table.              *)
(***************************************************************************)
ARKIT_BLENDSHAPE_ORDER ==
  <<
    "eyeBlinkLeft", "eyeLookDownLeft", "eyeLookInLeft", "eyeLookOutLeft", "eyeLookUpLeft",
    "eyeSquintLeft", "eyeWideLeft", "eyeBlinkRight", "eyeLookDownRight", "eyeLookInRight",
    "eyeLookOutRight", "eyeLookUpRight", "eyeSquintRight", "eyeWideRight", "jawForward",
    "jawLeft", "jawRight", "jawOpen", "mouthClose", "mouthFunnel", "mouthPucker",
    "mouthLeft", "mouthRight", "mouthSmileLeft", "mouthSmileRight", "mouthFrownLeft",
    "mouthFrownRight", "mouthDimpleLeft", "mouthDimpleRight", "mouthStretchLeft",
    "mouthStretchRight", "mouthRollLower", "mouthRollUpper", "mouthShrugLower",
    "mouthShrugUpper", "mouthPressLeft", "mouthPressRight", "mouthLowerDownLeft",
    "mouthLowerDownRight", "mouthUpperUpLeft", "mouthUpperUpRight", "browDownLeft",
    "browDownRight", "browInnerUp", "browOuterUpLeft", "browOuterUpRight", "cheekPuff",
    "cheekSquintLeft", "cheekSquintRight", "noseSneerLeft", "noseSneerRight", "tongueOut"
  >>

BLENDSHAPE_ALIASES ==
  <<
    [name |-> "eyeBlinkLeft", aliases |-> <<
       "eyeBlinkLeft", "eyeBlink_L", "EyeBlink_L", "eye_blink_left", "leftEyeBlink",
       "EyesClosed_L", "eyesClosed_L", "eyes_closed_l", "Blink_Left", "blink_l",
       "EyeBlinkL", "eyeBlinkL", "LeftEyeBlink", "left_eye_blink", "EyesWink_L",
       "eyesWink_L", "Wink_L", "wink_l", "eyesClosed", "EyesClosed", "eyeBlink",
       "EyeBlink", "Wolf3D_Head.eyeBlinkLeft", "Wolf3D_Avatar.eyeBlinkLeft", "blinkLeft",
       "BlinkLeft", "blink_left" >>],
    [name |-> "eyeBlinkRight", aliases |-> <<
       "eyeBlinkRight", "eyeBlink_R", "EyeBlink_R", "eye_blink_right", "rightEyeBlink",
       "EyesClosed_R", "eyesClosed_R", "eyes_closed_r", "Blink_Right", "blink_r",
       "EyeBlinkR", "eyeBlinkR", "RightEyeBlink", "right_eye_blink", "EyesWink_R",
       "eyesWink_R", "Wink_R", "wink_r", "eyesClosed", "EyesClosed", "eyeBlink",
       "EyeBlink", "Wolf3D_Head.eyeBlinkRight", "Wolf3D_Avatar.eyeBlinkRight",
       "blinkRight", "BlinkRight", "blink_right" >>],
    [name |-> "eyeLookDownLeft", aliases |-> <<
       "eyeLookDown_L", "EyeLookDown_L", "eye_look_down_left", "eyeLookDownLeft" >>],
    [name |-> "eyeLookDownRight", aliases |-> <<
       "eyeLookDown_R", "EyeLookDown_R", "eye_look_down_right", "eyeLookDownRight" >>],
    [name |-> "eyeLookInLeft", aliases |-> <<
       "eyeLookIn_L", "EyeLookIn_L", "eye_look_in_left", "eyeLookInLeft" >>],
    [name |-> "eyeLookInRight", aliases |-> <<
       "eyeLookIn_R", "EyeLookIn_R", "eye_look_in_right", "eyeLookInRight" >>],
    [name |-> "eyeLookOutLeft", aliases |-> <<
       "eyeLookOut_L", "EyeLookOut_L", "eye_look_out_left", "eyeLookOutLeft" >>],
    [name |-> "eyeLookOutRight", aliases |-> <<
       "eyeLookOut_R", "EyeLookOut_R", "eye_look_out_right", "eyeLookOutRight" >>],
    [name |-> "eyeLookUpLeft", aliases |-> <<
       "eyeLookUp_L", "EyeLookUp_L", "eye_look_up_left", "eyeLookUpLeft" >>],
    [name |-> "eyeLookUpRight", aliases |-> <<
       "eyeLookUp_R", "EyeLookUp_R", "eye_look_up_right", "eyeLookUpRight" >>],
    [name |-> "eyeSquintLeft", aliases |-> <<
       "eyeSquint_L", "EyeSquint_L", "eye_squint_left", "eyeSquintLeft" >>],
    [name |-> "eyeSquintRight", aliases |-> <<
       "eyeSquint_R", "EyeSquint_R", "eye_squint_right", "eyeSquintRight" >>],
    [name |-> "eyeWideLeft", aliases |-> <<
       "eyeWide_L", "EyeWide_L", "eye_wide_left", "eyeWideLeft" >>],
    [name |-> "eyeWideRight", aliases |-> <<
       "eyeWide_R", "EyeWide_R", "eye_wide_right", "eyeWideRight" >>],
    [name |-> "browDownLeft", aliases |-> <<
       "browDown_L", "BrowDown_L", "brow_down_left", "browDownLeft" >>],
    [name |-> "browDownRight", aliases |-> <<
       "browDown_R", "BrowDown_R", "brow_down_right", "browDownRight" >>],
    [name |-> "browInnerUp", aliases |-> <<
       "browInnerUp", "BrowInnerUp", "brow_inner_up", "browInnerUp" >>],
    [name |-> "browOuterUpLeft", aliases |-> <<
       "browOuterUp_L", "BrowOuterUp_L", "brow_outer_up_left", "browOuterUpLeft" >>],
    [name |-> "browOuterUpRight", aliases |-> <<
       "browOuterUp_R", "BrowOuterUp_R", "brow_outer_up_right", "browOuterUpRight" >>],
    [name |-> "jawOpen", aliases |-> <<
       "jawOpen", "JawOpen", "jaw_open", "mouthOpen", "jawOpen" >>],
    [name |-> "jawForward", aliases |-> <<
       "jawForward", "JawForward", "jaw_forward", "jawForward" >>],
    [name |-> "jawLeft", aliases |-> <<
       "jawLeft", "JawLeft", "jaw_left", "jawLeft" >>],
    [name |-> "jawRight", aliases |-> <<
       "jawRight", "JawRight", "jaw_right", "jawRight" >>],
    [name |-> "mouthSmileLeft", aliases |-> <<
       "mouthSmile_L", "MouthSmile_L", "mouth_smile_left", "smileLeft", "mouthSmileLeft" >>],
    [name |-> "mouthSmileRight", aliases |-> <<
       "mouthSmile_R", "MouthSmile_R", "mouth_smile_right", "smileRight", "mouthSmileRight" >>],
    [name |-> "mouthFrownLeft", aliases |-> <<
       "mouthFrown_L", "MouthFrown_L", "mouth_frown_left", "mouthFrownLeft" >>],
    [name |-> "mouthFrownRight", aliases |-> <<
       "mouthFrown_R", "MouthFrown_R", "mouth_frown_right", "mouthFrownRight" >>],
    [name |-> "mouthClose", aliases |-> <<
       "mouthClose", "MouthClose", "mouth_close", "mouthClose" >>],
    [name |-> "mouthFunnel", aliases |-> <<
       "mouthFunnel", "MouthFunnel", "mouth_funnel", "mouthFunnel" >>],
    [name |-> "mouthPucker", aliases |-> <<
       "mouthPucker", "MouthPucker", "mouth_pucker", "mouthPucker" >>],
    [name |-> "mouthLeft", aliases |-> <<
       "mouthLeft", "MouthLeft", "mouth_left", "mouthLeft" >>],
    [name |-> "mouthRight", aliases |-> <<
       "mouthRight", "MouthRight", "mouth_right", "mouthRight" >>],
    [name |-> "mouthDimpleLeft", aliases |-> <<
       "mouthDimple_L", "MouthDimple_L", "mouth_dimple_left", "mouthDimpleLeft" >>],
    [name |-> "mouthDimpleRight", aliases |-> <<
       "mouthDimple_R", "MouthDimple_R", "mouth_dimple_right", "mouthDimpleRight" >>],
    [name |-> "mouthStretchLeft", aliases |-> <<
       "mouthStretch_L", "MouthStretch_L", "mouth_stretch_left", "mouthStretchLeft" >>],
    [name |-> "mouthStretchRight", aliases |-> <<
       "mouthStretch_R", "MouthStretch_R", "mouth_stretch_right", "mouthStretchRight" >>],
    [name |-> "mouthRollLower", aliases |-> <<
       "mouthRollLower", "MouthRollLower", "mouth_roll_lower", "mouthRollLower" >>],
    [name |-> "mouthRollUpper", aliases |-> <<
       "mouthRollUpper", "MouthRollUpper", "mouth_roll_upper", "mouthRollUpper" >>],
    [name |-> "mouthShrugLower", aliases |-> <<
       "mouthShrugLower", "MouthShrugLower", "mouth_shrug_lower", "mouthShrugLower" >>],
    [name |-> "mouthShrugUpper", aliases |-> <<
       "mouthShrugUpper", "MouthShrugUpper", "mouth_shrug_upper", "mouthShrugUpper" >>],
    [name |-> "mouthPressLeft", aliases |-> <<
       "mouthPress_L", "MouthPress_L", "mouth_press_left", "mouthPressLeft" >>],
    [name |-> "mouthPressRight", aliases |-> <<
       "mouthPress_R", "MouthPress_R", "mouth_press_right", "mouthPressRight" >>],
    [name |-> "mouthLowerDownLeft", aliases |-> <<
       "mouthLowerDown_L", "MouthLowerDown_L", "mouth_lower_down_left", "mouthLowerDownLeft" >>],
    [name |-> "mouthLowerDownRight", aliases |-> <<
       "mouthLowerDown_R", "MouthLowerDown_R", "mouth_lower_down_right",
       "mouthLowerDownRight" >>],
    [name |-> "mouthUpperUpLeft", aliases |-> <<
       "mouthUpperUp_L", "MouthUpperUp_L", "mouth_upper_up_left", "mouthUpperUpLeft" >>],
    [name |-> "mouthUpperUpRight", aliases |-> <<
       "mouthUpperUp_R", "MouthUpperUp_R", "mouth_upper_up_right", "mouthUpperUpRight" >>],
    [name |-> "cheekPuff", aliases |-> <<
       "cheekPuff", "CheekPuff", "cheek_puff", "cheekPuff" >>],
    [name |-> "cheekSquintLeft", aliases |-> <<
       "cheekSquint_L", "CheekSquint_L", "cheek_squint_left", "cheekSquintLeft" >>],
    [name |-> "cheekSquintRight", aliases |-> <<
       "cheekSquint_R", "CheekSquint_R", "cheek_squint_right", "cheekSquintRight" >>],
    [name |-> "noseSneerLeft", aliases |-> <<
       "noseSneer_L", "NoseSneer_L", "nose_sneer_left", "noseSneerLeft" >>],
    [name |-> "noseSneerRight", aliases |-> <<
       "noseSneer_R", "NoseSneer_R", "nose_sneer_right", "noseSneerRight" >>]
  >>

\* line 237: more names than this are needed for the numeric reading
NumericThreshold == 50

Channels == {ARKIT_BLENDSHAPE_ORDER[i] : i \in DOMAIN ARKIT_BLENDSHAPE_ORDER}

\* an optional morph-target dictionary: `undefined` has present = FALSE
NoDictionary == [present |-> FALSE, entries |-> <<>>]

Dictionary(entries) == [present |-> TRUE, entries |-> entries]

\* lines 243-249 with the key of channel i read as String(i + shift); the
\* canonical names are distinct, so every mapping.set appends
IndexMapping(dict, shift) ==
  LET candidates ==
        [i \in DOMAIN ARKIT_BLENDSHAPE_ORDER |->
           [arkitName |-> ARKIT_BLENDSHAPE_ORDER[i],
            numericKey |-> NumberToString(i - 1 + shift)]]
      Defined(c) == Has(dict, c.numericKey)
      set == SelectSeq(candidates, Defined)
  IN  [j \in DOMAIN set |->
         [key |-> set[j].arkitName, value |-> Get(dict, set[j].numericKey)]]

\* mutant of NumericMapping: channel i reads key String(i + 1)
NumericOffByOne(dict) == IndexMapping(dict, 1)

\* lines 243-249: channel i of the canonical order goes to the slot of key String(i)
NumericMapping(dict) == IndexMapping(dict, 0)

\* line 269: alias.toLowerCase() of every alias of the table
LowerAliases ==
  Array([e \in DOMAIN BLENDSHAPE_ALIASES |->
     Array([a \in DOMAIN BLENDSHAPE_ALIASES[e].aliases |->
        toLowerCase(BLENDSHAPE_ALIASES[e].aliases[a])])])

RECURSIVE AliasMatch(_, _, _, _, _)
\* lines 262-276, for entry e of the alias table from alias a on: the first
\* alias found, exactly or case-insensitively; <<slot>>, or <<>> for no match
AliasMatch(dict, availableTargets, availableTargetsLower, e, a) ==
  IF a > Len(BLENDSHAPE_ALIASES[e].aliases) THEN <<>>
  ELSE LET alias == BLENDSHAPE_ALIASES[e].aliases[a]
           lowerAlias == LowerAliases[e][a]
           matchIndex == indexOf(availableTargetsLower, lowerAlias)
       IN  IF Has(dict, alias) THEN <<Get(dict, alias)>>
           ELSE IF matchIndex # -1
                THEN <<Get(dict, availableTargets[matchIndex + 1])>>
                ELSE AliasMatch(dict, availableTargets, availableTargetsLower, e, a + 1)

\* lines 254-277: exact canonical name first, then the aliases; the table's
\* names are distinct, so every mapping.set appends
NameMapping(dict, availableTargets, availableTargetsLower) ==
  LET found ==
        Array([e \in DOMAIN BLENDSHAPE_ALIASES |->
           IF Has(dict, BLENDSHAPE_ALIASES[e].name)
           THEN <<Get(dict, BLENDSHAPE_ALIASES[e].name)>>
           ELSE AliasMatch(dict, availableTargets, availableTargetsLower, e, 1)])
      Matched(e) == found[e] # <<>>
      set == SelectSeq([e \in DOMAIN BLENDSHAPE_ALIASES |-> e], Matched)
  IN  [j \in DOMAIN set |->
         [key |-> BLENDSHAPE_ALIASES[set[j]].name, value |-> found[set[j]][1]]]

\* lines 284-285 and 296-297: the substring heuristic for one side
FuzzyBlink(target, side, marker, letter) ==
  LET lower == toLowerCase(target)
  IN  /\ (includes(lower, "blink") \/ includes(lower, "closed"))
      /\ (includes(lower, side) \/ includes(lower, marker) \/ endsWith(lower, letter))

\* lines 281-303: a blink channel still unbound takes the first fuzzy match
FuzzyFallback(mapping, dict, availableTargets, channel, side, marker, letter) ==
  LET hits == {i \in DOMAIN availableTargets :
                 FuzzyBlink(availableTargets[i], side, marker, letter)}
  IN  IF Has(mapping, channel) \/ hits = {} THEN mapping
      ELSE LET first == CHOOSE i \in hits : \A j \in hits : i <= j
           IN  MapSet(mapping, channel, Get(dict, availableTargets[first]))

\* line 237-238
hasNumericNames(availableTargets) ==
  /\ Len(availableTargets) > NumericThreshold
  /\ \E i \in DOMAIN availableTargets : IsDigitString(availableTargets[i])

\* lines 253-305: name-based resolution followed by the two fuzzy fallbacks
NameBasedMapping(dict) ==
  LET availableTargets == ObjectKeys(dict)
      availableTargetsLower ==
        Array([i \in DOMAIN availableTargets |-> toLowerCase(availableTargets[i])])
  IN  FuzzyFallback(
        FuzzyFallback(
          NameMapping(dict, availableTargets, availableTargetsLower),
          dict, availableTargets, "eyeBlinkLeft", "left", "_l", "l"),
        dict, availableTargets, "eyeBlinkRight", "right", "_r", "r")

createBlendshapeMapping(morphTargetDictionary) ==
  IF ~morphTargetDictionary.present THEN <<>>
  ELSE LET availableTargets == ObjectKeys(morphTargetDictionary.entries)
       IN  IF hasNumericNames(availableTargets)
           THEN NumericMapping(morphTargetDictionary.entries)
           ELSE NameBasedMapping(morphTargetDictionary.entries)

(***************************************************************************)
(* Inputs of the resolver: morph-target dictionaries built as three.js      *)
(* builds them, the slot of a name being its position among the targets.    *)
(***************************************************************************)
MaxNamed == 2

NamePool ==
  { "eyeBlinkLeft", "eyeBlink_L", "EYEBLINK_L", "eyeLookDown_L", "eyeLookDownLeft",
    "tongueOut", "Face_Blink_Left", "LidClosed_R", "eyesClosed", "Basis" }

\* lists of at most MaxNamed distinct pool names
NamedLists ==
  {s \in UNION {[1..n -> NamePool] : n \in 0..MaxNamed} :
     \A i, j \in DOMAIN s : i # j => s[i] # s[j]}

\* "lo", "lo+1", ..., n names in all
NumericRun(lo, n) == [i \in 1..n |-> NumberToString(lo + i - 1)]

NumericRuns ==
  { NumericRun(0, 0), NumericRun(0, 1), NumericRun(0, 50), NumericRun(0, 51),
    NumericRun(0, 52), NumericRun(1, 51) }

\* the target names of a mesh, in creation order
TargetNameLists ==
  UNION {
    {base \o run \o named, base \o named \o run} :
      base \in {<<>>}, run \in NumericRuns, named \in NamedLists }
  \cup
  UNION {
    {ARKIT_BLENDSHAPE_ORDER \o run \o named, ARKIT_BLENDSHAPE_ORDER \o named \o run} :
      run \in NumericRuns,
      named \in {s \in NamedLists : \A i \in DOMAIN s : s[i] \notin Channels} }

\* three.js Mesh.updateMorphTargets: dictionary[name] = index of the target
MorphTargetDictionary(names) ==
  Dictionary([i \in DOMAIN names |-> [key |-> names[i], value |-> i - 1]])

Dictionaries ==
  {NoDictionary} \cup {MorphTargetDictionary(names) : names \in TargetNameLists}


(***************************************************************************)
(* JavaScript numbers holding amplitudes, factors and rotations, as exact   *)
(* rationals in lowest terms with a positive denominator.                   *)
(***************************************************************************)
RECURSIVE GCD(_, _)
GCD(a, b) == IF b = 0 THEN a ELSE GCD(b, a % b)

Abs(x) == IF x < 0 THEN -x ELSE x

Ratio(num, den) ==
  LET g == GCD(Abs(num), den)
  IN  [n |-> num \div g, d |-> den \div g]

Zero == Ratio(0, 1)

One == Ratio(1, 1)

Neg(a) == [n |-> -a.n, d |-> a.d]

Plus(a, b) ==
  LET g == GCD(a.d, b.d)
  IN  Ratio(a.n * (b.d \div g) + b.n * (a.d \div g), (a.d \div g) * b.d)

Minus(a, b) == Plus(a, Neg(b))

Times(a, b) ==
  LET g1 == GCD(Abs(a.n), b.d)
      g2 == GCD(Abs(b.n), a.d)
  IN  Ratio((a.n \div g1) * (b.n \div g2), (a.d \div g2) * (b.d \div g1))

Less(a, b) == Minus(a, b).n < 0

AbsR(a) == [n |-> Abs(a.n), d |-> a.d]

(***************************************************************************)
(* blendshapes.ts: applyBlendshapes.  A frame (BlendshapeData) is a         *)
(* function from the channel names it carries to amplitudes; the morph      *)
(* influences are a function from slot indices, from 0, to values.          *)
(***************************************************************************)
\* lines 309-316
FAST_RESPONSE_BLENDSHAPES ==
  { "eyeBlinkLeft", "eyeBlinkRight", "eyeWideLeft", "eyeWideRight",
    "eyeSquintLeft", "eyeSquintRight" }

\* line 337: effectiveSmoothing = 0.85
FastSmoothing == Ratio(17, 20)

\* mutant of effectiveSmoothing: the fast category is ignored
effectiveSmoothingNoFast(mediaPipeName, smoothingFactor) == smoothingFactor

\* lines 333-338
effectiveSmoothing(mediaPipeName, smoothingFactor) ==
  IF mediaPipeName \in FAST_RESPONSE_BLENDSHAPES THEN FastSmoothing
  ELSE smoothingFactor

\* mutant of Smoothed: the step is taken from the target, not toward it
SmoothedAway(currentValue, value, factor) ==
  Plus(currentValue, Times(Minus(currentValue, value), factor))

\* mutant of Smoothed: the step is longer than the distance to the target
SmoothedOvershoot(currentValue, value, factor) ==
  Plus(currentValue, Times(Minus(value, currentValue), Plus(factor, One)))

\* mutant of Smoothed: the step adds the target instead of the difference
SmoothedAdding(currentValue, value, factor) ==
  Plus(currentValue, Times(value, factor))

\* lines 341-342: currentValue + (value - currentValue) * effectiveSmoothing
Smoothed(currentValue, value, factor) ==
  Plus(currentValue, Times(Minus(value, currentValue), factor))

\* a loop body that leaves the slot of a channel the frame lacks alone
ApplyEntrySkipAbsent(blendshapeData, influences, entry, smoothingFactor) ==
  IF entry.key \notin DOMAIN blendshapeData THEN influences
  ELSE [i \in DOMAIN influences \cup {entry.value} |->
          IF i = entry.value
          THEN Smoothed(IF i \in DOMAIN influences THEN influences[i] ELSE Zero,
                        blendshapeData[entry.key],
                        effectiveSmoothing(entry.key, smoothingFactor))
          ELSE influences[i]]

\* a loop body that writes the slot below the bound one
ApplyEntrySlotBelow(blendshapeData, influences, entry, smoothingFactor) ==
  LET value == IF entry.key \in DOMAIN blendshapeData
               THEN blendshapeData[entry.key] ELSE Zero
      slot == IF entry.value > 0 THEN entry.value - 1 ELSE entry.value
      currentValue == IF slot \in DOMAIN influences THEN influences[slot] ELSE Zero
  IN  [i \in DOMAIN influences \cup {slot} |->
         IF i = slot
         THEN Smoothed(currentValue, value, effectiveSmoothing(entry.key, smoothingFactor))
         ELSE influences[i]]

\* lines 329-342: the body of the loop for entry k of the mapping
ApplyEntry(blendshapeData, influences, entry, smoothingFactor) ==
  LET mediaPipeName == entry.key
      targetIndex == entry.value
      value == IF mediaPipeName \in DOMAIN blendshapeData
               THEN blendshapeData[mediaPipeName] ELSE Zero
      currentValue == IF targetIndex \in DOMAIN influences
                      THEN influences[targetIndex] ELSE Zero
      written == Smoothed(currentValue, value,
                          effectiveSmoothing(mediaPipeName, smoothingFactor))
  IN  [i \in DOMAIN influences \cup {targetIndex} |->
         IF i = targetIndex THEN written ELSE influences[i]]

RECURSIVE ApplyFrom(_, _, _, _, _)
\* line 328: the entries of the Map from the k-th on, in insertion order
ApplyFrom(blendshapeData, influences, blendshapeMapping, smoothingFactor, k) ==
  IF k > Len(blendshapeMapping) THEN influences
  ELSE LET next == ApplyEntry(blendshapeData, influences, blendshapeMapping[k],
                              smoothingFactor)
       IN  ApplyFrom(blendshapeData, next, blendshapeMapping, smoothingFactor, k + 1)

\* the morph influences as applyBlendshapes leaves them
applyBlendshapes(blendshapeData, influences, blendshapeMapping, smoothingFactor) ==
  ApplyFrom(blendshapeData, influences, blendshapeMapping, smoothingFactor, 1)

(***************************************************************************)
(* Rotation components.  Math.atan2 and Vector3.angleTo return multiples    *)
(* of pi, so a rotation component is kept exactly as q + p * pi with q and  *)
(* p rational.                                                              *)
(***************************************************************************)
Real(q, p) == [q |-> q, p |-> p]

FromRatio(r) == Real(r, Zero)

RealZero == FromRatio(Zero)

\* Math.PI
PI == Real(Zero, One)

PiTimes(num, den) == Real(Zero, Ratio(num, den))

RealPlus(a, b) == Real(Plus(a.q, b.q), Plus(a.p, b.p))

RealMinus(a, b) == Real(Minus(a.q, b.q), Minus(a.p, b.p))

RealTimes(a, r) == Real(Times(a.q, r), Times(a.p, r))

RealNeg(a) == Real(Neg(a.q), Neg(a.p))

\* Math.max(0, a), for a rational or a rational multiple of pi
Max0(a) ==
  CASE a.q.n >= 0 /\ a.p.n >= 0 -> a
    [] a.q.n <= 0 /\ a.p.n <= 0 /\ a # RealZero -> RealZero

\* THREE.MathUtils.lerp(x, y, t) = (1 - t) * x + t * y
lerp(x, y, t) == RealPlus(RealTimes(x, Minus(One, t)), RealTimes(y, t))

\* Math.atan2(y, x) for x >= 0, at the arguments whose angle is a rational
\* multiple of pi
atan2(y, x) ==
  CASE y = Zero -> RealZero
    [] y # Zero /\ x = Zero -> IF y.n > 0 THEN PiTimes(1, 2) ELSE PiTimes(-1, 2)
    [] y # Zero /\ x # Zero /\ y = x -> PiTimes(1, 4)
    [] y # Zero /\ x # Zero /\ y = Neg(x) -> PiTimes(-1, 4)

(***************************************************************************)
(* THREE.Vector3 with rational coordinates.                                 *)
(***************************************************************************)
Vector3(x, y, z) == [x |-> x, y |-> y, z |-> z]

subVectors(a, b) == Vector3(Minus(a.x, b.x), Minus(a.y, b.y), Minus(a.z, b.z))

dot(v, w) == Plus(Plus(Times(v.x, w.x), Times(v.y, w.y)), Times(v.z, w.z))

lengthSq(v) == dot(v, v)

\* Vector3.angleTo: acos(clamp(dot / sqrt(lengthSq * lengthSq), -1, 1)), and
\* pi / 2 when a vector is zero; at the vector pairs whose angle is a
\* multiple of pi / 4
angleTo(v, w) ==
  LET denominatorSq == Times(lengthSq(v), lengthSq(w))
      d == dot(v, w)
      dSq == Times(d, d)
  IN  CASE denominatorSq = Zero -> PiTimes(1, 2)
        [] denominatorSq # Zero /\ d = Zero -> PiTimes(1, 2)
        [] d # Zero /\ dSq = denominatorSq ->
             IF d.n > 0 THEN RealZero ELSE PI
        [] d # Zero /\ Times(dSq, Ratio(2, 1)) = denominatorSq ->
             IF d.n > 0 THEN PiTimes(1, 4) ELSE PiTimes(3, 4)

(***************************************************************************)
(* Scenes.  A loaded scene is its key and its nodes in the order            *)
(* Object3D.traverse visits them; an object is named by its scene and its   *)
(* place in that order.  Null stands for null and undefined.                *)
(***************************************************************************)
Null == [null |-> TRUE]

Object(sceneKey, node) == [scene |-> sceneKey, node |-> node]

Group(name) == [kind |-> "Group", name |-> name, morphTargetDictionary |-> NoDictionary]

Bone(name) == [kind |-> "Bone", name |-> name, morphTargetDictionary |-> NoDictionary]

Mesh(name, morphTargetNames) ==
  [kind |-> "Mesh", name |-> name,
   morphTargetDictionary |-> MorphTargetDictionary(morphTargetNames)]

\* a mesh whose geometry has no morph attributes
PlainMesh(name) == [kind |-> "Mesh", name |-> name, morphTargetDictionary |-> NoDictionary]

Least(S) == CHOOSE i \in S : \A j \in S : i <= j

Greatest(S) == CHOOSE i \in S : \A j \in S : i >= j

\* the lower-case forms of a list of names
LowerAll(names) == Array([k \in DOMAIN names |-> toLowerCase(names[k])])

\* child.name.toLowerCase() of every node of the traversal
LowerNames(scene) ==
  Array([i \in DOMAIN scene.nodes |-> toLowerCase(scene.nodes[i].name)])

\* the places of the bones in the traversal (child instanceof THREE.Bone)
Bones(scene) == {i \in DOMAIN scene.nodes : scene.nodes[i].kind = "Bone"}

\* the first of the found nodes in traversal order, or null
FirstBone(scene, found) ==
  IF found = {} THEN Null ELSE Object(scene.key, Least(found))

(***************************************************************************)
(* eyeTracking.ts                                                           *)
(***************************************************************************)
EYE_BONE_NAMES ==
  [ leftEye |-> << "LeftEye", "leftEye", "Eye_L", "eye_L", "Eye.L",
                   "mixamorigLeftEye", "LeftEyeBone" >>,
    rightEye |-> << "RightEye", "rightEye", "Eye_R", "eye_R", "Eye.R",
                    "mixamorigRightEye", "RightEyeBone" >> ]

EYELID_BONE_NAMES ==
  [ leftUpper |-> << "LeftEyelidUpper", "leftEyelidUpper", "Eyelid_Upper_L",
                     "eyelid_upper_l", "LeftUpperEyelid", "EyelidUp_L" >>,
    leftLower |-> << "LeftEyelidLower", "leftEyelidLower", "Eyelid_Lower_L",
                     "eyelid_lower_l", "LeftLowerEyelid", "EyelidDown_L" >>,
    rightUpper |-> << "RightEyelidUpper", "rightEyelidUpper", "Eyelid_Upper_R",
                      "eyelid_upper_r", "RightUpperEyelid", "EyelidUp_R" >>,
    rightLower |-> << "RightEyelidLower", "rightEyelidLower", "Eyelid_Lower_R",
                      "eyelid_lower_r", "RightLowerEyelid", "EyelidDown_R" >> ]

\* alias.toLowerCase() of every alias
LowerEyeBoneNames ==
  [ leftEye |-> LowerAll(EYE_BONE_NAMES.leftEye),
    rightEye |-> LowerAll(EYE_BONE_NAMES.rightEye) ]

LowerEyelidBoneNames ==
  [ leftUpper |-> LowerAll(EYELID_BONE_NAMES.leftUpper),
    leftLower |-> LowerAll(EYELID_BONE_NAMES.leftLower),
    rightUpper |-> LowerAll(EYELID_BONE_NAMES.rightUpper),
    rightLower |-> LowerAll(EYELID_BONE_NAMES.rightLower) ]

\* blendshapes[name] ?? 0
OrZero(blendshapes, name) ==
  IF name \in DOMAIN blendshapes THEN blendshapes[name] ELSE Zero

extractEyelidState(blendshapes) ==
  [ left |-> OrZero(blendshapes, "eyeBlinkLeft"),
    right |-> OrZero(blendshapes, "eyeBlinkRight") ]

maxAngle == Ratio(1, 2)

\* an extraction with the same yaw convention for both eyes
extractEyeGazeSameYaw(blendshapes) ==
  [ leftEye |-> [x |-> Times(Minus(OrZero(blendshapes, "eyeLookDownLeft"),
                                   OrZero(blendshapes, "eyeLookUpLeft")), maxAngle),
                 y |-> Times(Minus(OrZero(blendshapes, "eyeLookOutLeft"),
                                   OrZero(blendshapes, "eyeLookInLeft")), maxAngle)],
    rightEye |-> [x |-> Times(Minus(OrZero(blendshapes, "eyeLookDownRight"),
                                    OrZero(blendshapes, "eyeLookUpRight")), maxAngle),
                  y |-> Times(Minus(OrZero(blendshapes, "eyeLookOutRight"),
                                    OrZero(blendshapes, "eyeLookInRight")), maxAngle)] ]

extractEyeGaze(blendshapes) ==
  LET lookUpL == OrZero(blendshapes, "eyeLookUpLeft")
      lookDownL == OrZero(blendshapes, "eyeLookDownLeft")
      lookInL == OrZero(blendshapes, "eyeLookInLeft")
      lookOutL == OrZero(blendshapes, "eyeLookOutLeft")
      lookUpR == OrZero(blendshapes, "eyeLookUpRight")
      lookDownR == OrZero(blendshapes, "eyeLookDownRight")
      lookInR == OrZero(blendshapes, "eyeLookInRight")
      lookOutR == OrZero(blendshapes, "eyeLookOutRight")
  IN  [ leftEye |-> [x |-> Times(Minus(lookDownL, lookUpL), maxAngle),
                     y |-> Times(Minus(lookOutL, lookInL), maxAngle)],
        rightEye |-> [x |-> Times(Minus(lookDownR, lookUpR), maxAngle),
                      y |-> Times(Minus(lookInR, lookOutR), maxAngle)] ]

\* name.includes(alias) || name.toLowerCase() === alias.toLowerCase(), for
\* some alias
EyeNameMatch(aliases, aliasesLower, name, nameLower) ==
  \E k \in DOMAIN aliases :
    includes(name, aliases[k]) \/ nameLower = aliasesLower[k]

\* the first bone of the traversal matching an alias, or null
EyeBone(scene, lowerNames, aliases, aliasesLower) ==
  FirstBone(scene,
            {i \in Bones(scene) :
               EyeNameMatch(aliases, aliasesLower, scene.nodes[i].name, lowerNames[i])})

findEyelidBones(scene) ==
  LET lowerNames == LowerNames(scene)
  IN  [ leftUpper |-> EyeBone(scene, lowerNames, EYELID_BONE_NAMES.leftUpper,
                              LowerEyelidBoneNames.leftUpper),
        leftLower |-> EyeBone(scene, lowerNames, EYELID_BONE_NAMES.leftLower,
                              LowerEyelidBoneNames.leftLower),
        rightUpper |-> EyeBone(scene, lowerNames, EYELID_BONE_NAMES.rightUpper,
                               LowerEyelidBoneNames.rightUpper),
        rightLower |-> EyeBone(scene, lowerNames, EYELID_BONE_NAMES.rightLower,
                               LowerEyelidBoneNames.rightLower) ]

blinkAngle == Ratio(2, 5)

\* bone.rotation[axis] = lerp(bone.rotation[axis], target, t) when the bone
\* is not null
LerpX(rotation, bone, target, t) ==
  IF bone = Null THEN rotation
  ELSE [rotation EXCEPT ![bone].x = lerp(@, target, t)]

LerpY(rotation, bone, target, t) ==
  IF bone = Null THEN rotation
  ELSE [rotation EXCEPT ![bone].y = lerp(@, target, t)]

LerpZ(rotation, bone, target, t) ==
  IF bone = Null THEN rotation
  ELSE [rotation EXCEPT ![bone].z = lerp(@, target, t)]

\* the bone rotations as applyEyelidBlink leaves them
\* a lower eyelid that travels as far as the upper one
LowerLidAsUpper(closed) == FromRatio(Times(Neg(closed), blinkAngle))

UpperLidTarget(closed) == FromRatio(Times(closed, blinkAngle))

LowerLidTarget(closed) == FromRatio(Times(Times(Neg(closed), blinkAngle), Ratio(3, 10)))

applyEyelidBlink(rotation, eyelidState, eyelidBones, smoothingFactor) ==
  LerpX(LerpX(LerpX(LerpX(rotation,
                          eyelidBones.leftUpper, UpperLidTarget(eyelidState.left),
                          smoothingFactor),
                    eyelidBones.leftLower, LowerLidTarget(eyelidState.left),
                    smoothingFactor),
              eyelidBones.rightUpper, UpperLidTarget(eyelidState.right),
              smoothingFactor),
        eyelidBones.rightLower, LowerLidTarget(eyelidState.right), smoothingFactor)

findEyeBones(scene) ==
  LET lowerNames == LowerNames(scene)
  IN  [ leftEye |-> EyeBone(scene, lowerNames, EYE_BONE_NAMES.leftEye,
                            LowerEyeBoneNames.leftEye),
        rightEye |-> EyeBone(scene, lowerNames, EYE_BONE_NAMES.rightEye,
                             LowerEyeBoneNames.rightEye) ]

\* the bone rotations as applyEyeGazeToBones leaves them
applyEyeGazeToBones(rotation, eyeGaze, leftEyeBone, rightEyeBone, smoothingFactor) ==
  LerpY(LerpX(LerpY(LerpX(rotation,
                          leftEyeBone, FromRatio(eyeGaze.leftEye.x), smoothingFactor),
                    leftEyeBone, FromRatio(eyeGaze.leftEye.y), smoothingFactor),
              rightEyeBone, FromRatio(eyeGaze.rightEye.x), smoothingFactor),
        rightEyeBone, FromRatio(eyeGaze.rightEye.y), smoothingFactor)

(***************************************************************************)
(* poseTracking.ts                                                          *)
(***************************************************************************)
BONE_PATTERNS ==
  [ hips |-> << "Hips", "hips", "mixamorigHips", "pelvis", "Pelvis" >>,
    spine |-> << "Spine", "spine", "mixamorigSpine" >>,
    spine1 |-> << "Spine1", "spine1", "mixamorigSpine1" >>,
    spine2 |-> << "Spine2", "spine2", "mixamorigSpine2", "Chest", "chest" >>,
    neck |-> << "Neck", "neck", "mixamorigNeck" >>,
    head |-> << "Head", "head", "mixamorigHead" >>,
    leftShoulder |-> << "LeftShoulder", "leftShoulder", "mixamorigLeftShoulder",
                        "shoulder_L", "Shoulder_L" >>,
    leftArm |-> << "LeftArm", "leftArm", "mixamorigLeftArm", "arm_L", "Arm_L",
                   "UpperArm_L" >>,
    leftForeArm |-> << "LeftForeArm", "leftForeArm", "mixamorigLeftForeArm",
                       "forearm_L", "ForeArm_L", "LowerArm_L" >>,
    leftHand |-> << "LeftHand", "leftHand", "mixamorigLeftHand", "hand_L", "Hand_L" >>,
    rightShoulder |-> << "RightShoulder", "rightShoulder", "mixamorigRightShoulder",
                         "shoulder_R", "Shoulder_R" >>,
    rightArm |-> << "RightArm", "rightArm", "mixamorigRightArm", "arm_R", "Arm_R",
                    "UpperArm_R" >>,
    rightForeArm |-> << "RightForeArm", "rightForeArm", "mixamorigRightForeArm",
                        "forearm_R", "ForeArm_R", "LowerArm_R" >>,
    rightHand |-> << "RightHand", "rightHand", "mixamorigRightHand", "hand_R",
                     "Hand_R" >> ]

\* pattern.toLowerCase() of every pattern
LowerBonePatterns ==
  [ hips |-> LowerAll(BONE_PATTERNS.hips),
    spine |-> LowerAll(BONE_PATTERNS.spine),
    spine1 |-> LowerAll(BONE_PATTERNS.spine1),
    spine2 |-> LowerAll(BONE_PATTERNS.spine2),
    neck |-> LowerAll(BONE_PATTERNS.neck),
    head |-> LowerAll(BONE_PATTERNS.head),
    leftShoulder |-> LowerAll(BONE_PATTERNS.leftShoulder),
    leftArm |-> LowerAll(BONE_PATTERNS.leftArm),
    leftForeArm |-> LowerAll(BONE_PATTERNS.leftForeArm),
    leftHand |-> LowerAll(BONE_PATTERNS.leftHand),
    rightShoulder |-> LowerAll(BONE_PATTERNS.rightShoulder),
    rightArm |-> LowerAll(BONE_PATTERNS.rightArm),
    rightForeArm |-> LowerAll(BONE_PATTERNS.rightForeArm),
    rightHand |-> LowerAll(BONE_PATTERNS.rightHand) ]

\* bone.name.toLowerCase().includes(pattern.toLowerCase()), for some pattern
BodyNameMatch(patternsLower, boneName) ==
  \E k \in DOMAIN patternsLower : includes(boneName, patternsLower[k])

\* a joint bound to the last matching bone of the traversal
BodyBoneLast(scene, lowerNames, patternsLower) ==
  IF {i \in Bones(scene) : BodyNameMatch(patternsLower, lowerNames[i])} = {} THEN Null
  ELSE Object(scene.key,
              Greatest({i \in Bones(scene) : BodyNameMatch(patternsLower, lowerNames[i])}))

\* the joint's bone: the first bone of the traversal matching a pattern
BodyBone(scene, lowerNames, patternsLower) ==
  FirstBone(scene, {i \in Bones(scene) : BodyNameMatch(patternsLower, lowerNames[i])})

findBodyBones(scene) ==
  LET lowerNames == LowerNames(scene)
  IN  [ hips |-> BodyBone(scene, lowerNames, LowerBonePatterns.hips),
        spine |-> BodyBone(scene, lowerNames, LowerBonePatterns.spine),
        spine1 |-> BodyBone(scene, lowerNames, LowerBonePatterns.spine1),
        spine2 |-> BodyBone(scene, lowerNames, LowerBonePatterns.spine2),
        neck |-> BodyBone(scene, lowerNames, LowerBonePatterns.neck),
        head |-> BodyBone(scene, lowerNames, LowerBonePatterns.head),
        leftShoulder |-> BodyBone(scene, lowerNames, LowerBonePatterns.leftShoulder),
        leftArm |-> BodyBone(scene, lowerNames, LowerBonePatterns.leftArm),
        leftForeArm |-> BodyBone(scene, lowerNames, LowerBonePatterns.leftForeArm),
        leftHand |-> BodyBone(scene, lowerNames, LowerBonePatterns.leftHand),
        rightShoulder |-> BodyBone(scene, lowerNames, LowerBonePatterns.rightShoulder),
        rightArm |-> BodyBone(scene, lowerNames, LowerBonePatterns.rightArm),
        rightForeArm |-> BodyBone(scene, lowerNames, LowerBonePatterns.rightForeArm),
        rightHand |-> BodyBone(scene, lowerNames, LowerBonePatterns.rightHand) ]

\* the angle at b between the points a and c
calculateAngle(a, b, c) == angleTo(subVectors(a, b), subVectors(c, b))

\* lines 209-237 and 239-263: the upper arm follows the shoulder-to-elbow
\* vector
VerticalAngle(armVec) == atan2(armVec.y, AbsR(armVec.x))

\* an upper arm that falls back to the rest rotation when its elbow is not seen
UpperArmSnap(rotation, shoulder, elbow, bone, smoothingFactor) ==
  IF bone = Null THEN rotation
  ELSE IF elbow = Null \/ shoulder = Null
       THEN LerpX(rotation, bone, RealZero, smoothingFactor)
       ELSE LerpZ(LerpY(LerpX(rotation, bone,
                              RealTimes(VerticalAngle(subVectors(elbow, shoulder)),
                                        Ratio(11, 10)),
                              smoothingFactor),
                        bone, RealZero, smoothingFactor),
                  bone, RealZero, smoothingFactor)

UpperArmStep(rotation, shoulder, elbow, bone, smoothingFactor) ==
  IF elbow = Null \/ shoulder = Null \/ bone = Null THEN rotation
  ELSE LerpZ(LerpY(LerpX(rotation, bone,
                         RealTimes(VerticalAngle(subVectors(elbow, shoulder)),
                                   Ratio(11, 10)),
                         smoothingFactor),
                   bone, RealZero, smoothingFactor),
             bone, RealZero, smoothingFactor)

\* lines 265-277 and 279-289: the forearm bends by the elbow angle, the
\* right one in the opposite direction
\* a bend with the same sign for both arms
BendSameSign(bendAmount, opposite) == bendAmount

Bend(bendAmount, opposite) == IF opposite THEN RealNeg(bendAmount) ELSE bendAmount

ForeArmStep(rotation, shoulder, elbow, wrist, bone, opposite, smoothingFactor) ==
  IF shoulder = Null \/ elbow = Null \/ wrist = Null \/ bone = Null THEN rotation
  ELSE LerpY(rotation, bone,
             Bend(Max0(RealTimes(RealMinus(PI, calculateAngle(shoulder, elbow, wrist)),
                                 Ratio(7, 10))),
                  opposite),
             smoothingFactor)

\* lines 209-289: left upper arm, right upper arm, left forearm, right
\* forearm, in this order
ArmSteps(rotation, poseData, bodyBones, smoothingFactor) ==
  ForeArmStep(
    ForeArmStep(
      UpperArmStep(
        UpperArmStep(rotation, poseData.leftShoulder, poseData.leftElbow,
                     bodyBones.leftArm, smoothingFactor),
        poseData.rightShoulder, poseData.rightElbow, bodyBones.rightArm,
        smoothingFactor),
      poseData.leftShoulder, poseData.leftElbow, poseData.leftWrist,
      bodyBones.leftForeArm, FALSE, smoothingFactor),
    poseData.rightShoulder, poseData.rightElbow, poseData.rightWrist,
    bodyBones.rightForeArm, TRUE, smoothingFactor)

\* a call that goes on without both shoulders
applyPoseWithoutShoulders(rotation, poseData, bodyBones, smoothingFactor) ==
  ArmSteps(rotation, poseData, bodyBones, smoothingFactor)

\* the bone rotations as applyPoseToBones leaves them
applyPoseToBones(rotation, poseData, bodyBones, smoothingFactor) ==
  IF poseData.leftShoulder = Null \/ poseData.rightShoulder = Null THEN rotation
  ELSE ArmSteps(rotation, poseData, bodyBones, smoothingFactor)

\* lines 13-47: the MediaPipe landmark indices extractPoseData reads
POSE_LANDMARKS ==
  [ LEFT_SHOULDER |-> 11, RIGHT_SHOULDER |-> 12, LEFT_ELBOW |-> 13, RIGHT_ELBOW |-> 14,
    LEFT_WRIST |-> 15, RIGHT_WRIST |-> 16, LEFT_HIP |-> 23, RIGHT_HIP |-> 24 ]

\* lines 158-164: landmarks[index] with x mirrored, null for a missing one
getVector(landmarks, index) ==
  IF index \notin DOMAIN landmarks THEN Null
  ELSE Vector3(Minus(One, landmarks[index].x), landmarks[index].y, landmarks[index].z)

\* a PoseLandmarkerResult: landmarks is undefined (not present) or a list of
\* poses, each a JavaScript array of landmarks given by its filled indices
extractPoseData(result) ==
  IF ~result.present \/ Len(result.landmarks) = 0 THEN Null
  ELSE [ leftShoulder |-> getVector(result.landmarks[1], POSE_LANDMARKS.LEFT_SHOULDER),
         rightShoulder |-> getVector(result.landmarks[1], POSE_LANDMARKS.RIGHT_SHOULDER),
         leftElbow |-> getVector(result.landmarks[1], POSE_LANDMARKS.LEFT_ELBOW),
         rightElbow |-> getVector(result.landmarks[1], POSE_LANDMARKS.RIGHT_ELBOW),
         leftWrist |-> getVector(result.landmarks[1], POSE_LANDMARKS.LEFT_WRIST),
         rightWrist |-> getVector(result.landmarks[1], POSE_LANDMARKS.RIGHT_WRIST),
         leftHip |-> getVector(result.landmarks[1], POSE_LANDMARKS.LEFT_HIP),
         rightHip |-> getVector(result.landmarks[1], POSE_LANDMARKS.RIGHT_HIP) ]

(***************************************************************************)
(* usePoseLandmarker.ts.  The refs of the hook are the fields of a record;  *)
(* detectPose gives the refs as the call leaves them and what it returns.   *)
(* The detector's outcome for the frame is an input: it throws, or returns  *)
(* a result whose landmarks list is empty or holds one pose.                *)
(***************************************************************************)
POSE_SMOOTHING == Ratio(3, 5)

MIN_VISIBILITY == Ratio(1, 2)

POSE_HOLD_FRAMES == 10

\* lines 65-69: the hold of a call that never reaches the detector
HoldUnchanged(refs) ==
  IF refs.framesSinceValidPose < POSE_HOLD_FRAMES /\ refs.lastValidResult # Null
  THEN [refs |-> [refs EXCEPT !.framesSinceValidPose = @ + 1],
        returned |-> refs.lastValidResult]
  ELSE [refs |-> refs, returned |-> Null]

\* lines 80-84, 94-98 and 135-139: the hold of a call whose detection failed
HoldMissed(refs) ==
  [refs |-> [refs EXCEPT !.framesSinceValidPose = @ + 1],
   returned |-> IF refs.framesSinceValidPose + 1 < POSE_HOLD_FRAMES
                   /\ refs.lastValidResult # Null
                THEN refs.lastValidResult ELSE Null]

\* lines 92-93: !shoulder || (shoulder.visibility ?? 0) < MIN_VISIBILITY
Invisible(landmarks, index) ==
  \/ index \notin DOMAIN landmarks
  \/ Less(landmarks[index].visibility, MIN_VISIBILITY)

\* lines 107-112
SmoothedLandmark(prev, lm) ==
  [x |-> Plus(Times(prev.x, POSE_SMOOTHING), Times(lm.x, Minus(One, POSE_SMOOTHING))),
   y |-> Plus(Times(prev.y, POSE_SMOOTHING), Times(lm.y, Minus(One, POSE_SMOOTHING))),
   z |-> Plus(Times(prev.z, POSE_SMOOTHING), Times(lm.z, Minus(One, POSE_SMOOTHING))),
   visibility |-> lm.visibility]

\* lines 103-113: newLandmarks.map
SmoothedLandmarks(prev, newLandmarks) ==
  [i \in DOMAIN newLandmarks |->
     IF i \in DOMAIN prev THEN SmoothedLandmark(prev[i], newLandmarks[i])
     ELSE newLandmarks[i]]

\* lines 102-132: a valid detection becomes the last valid result
ValidPose(refs, result) ==
  IF refs.smoothedLandmarks # Null
  THEN [refs |-> [refs EXCEPT
                    !.smoothedLandmarks =
                       SmoothedLandmarks(refs.smoothedLandmarks, result.landmarks[1]),
                    !.framesSinceValidPose = 0,
                    !.lastValidResult =
                       [present |-> TRUE,
                        landmarks |->
                          << SmoothedLandmarks(refs.smoothedLandmarks,
                                               result.landmarks[1]) >>]],
        returned |-> [present |-> TRUE,
                      landmarks |->
                        << SmoothedLandmarks(refs.smoothedLandmarks,
                                             result.landmarks[1]) >>]]
  ELSE [refs |-> [refs EXCEPT !.smoothedLandmarks = result.landmarks[1],
                              !.framesSinceValidPose = 0,
                              !.lastValidResult = result],
        returned |-> result]

\* lines 75-140, with lastVideoTimeRef already set
Detected(refs, outcome) ==
  IF outcome.throws THEN HoldMissed(refs)
  ELSE IF Len(outcome.result.landmarks) = 0 THEN HoldMissed(refs)
  ELSE IF /\ Invisible(outcome.result.landmarks[1], 11)
          /\ Invisible(outcome.result.landmarks[1], 12)
       THEN HoldMissed(refs)
  ELSE ValidPose(refs, outcome.result)

\* lines 61-143
detectPose(refs, poseLandmarker, currentTime, outcome) ==
  IF ~poseLandmarker \/ currentTime = refs.lastVideoTime THEN HoldUnchanged(refs)
  ELSE Detected([refs EXCEPT !.lastVideoTime = currentTime], outcome)

(***************************************************************************)
(* useFaceLandmarker.ts.  detectFace gives lastTimestampRef as the call     *)
(* leaves it, what the call returns, and the timestamps it passed to        *)
(* faceLandmarker.detectForVideo (one or none).                             *)
(***************************************************************************)
\* a detectFace that only refuses timestamps below the last accepted one
detectFaceBelowOnly(lastTimestamp, faceLandmarker, readyState, timestamp, outcome) ==
  IF ~faceLandmarker \/ readyState < 2 \/ timestamp < lastTimestamp
  THEN [lastTimestamp |-> lastTimestamp, returned |-> Null, passed |-> << >>]
  ELSE [lastTimestamp |-> timestamp,
        returned |-> IF outcome.throws THEN Null ELSE outcome.result,
        passed |-> << timestamp >>]

\* lines 65-87
detectFace(lastTimestamp, faceLandmarker, readyState, timestamp, outcome) ==
  IF ~faceLandmarker \/ readyState < 2
  THEN [lastTimestamp |-> lastTimestamp, returned |-> Null, passed |-> << >>]
  ELSE IF timestamp <= lastTimestamp
  THEN [lastTimestamp |-> lastTimestamp, returned |-> Null, passed |-> << >>]
  ELSE [lastTimestamp |-> timestamp,
        returned |-> IF outcome.throws THEN Null ELSE outcome.result,
        passed |-> << timestamp >>]

(***************************************************************************)
(* Inputs of the smoother: a binding resolved from a small catalog, a       *)
(* constant frame, a base factor and the starting slot values.              *)
(***************************************************************************)
MaxCalls == 10

\* calls stop once a slot value no longer fits TLC's integers
MaxDenominator == 64000000

SmoothTargetNames ==
  { <<"eyeBlinkLeft", "mouthSmileLeft">>, <<"Basis", "mouthSmile_L">>,
    <<"EyeBlink_L">>, <<"Basis">> }

FrameChannels == {"eyeBlinkLeft", "mouthSmileLeft"}

Amplitudes == {Zero, Ratio(1, 2), One}

Frames == UNION {[present -> Amplitudes] : present \in SUBSET FrameChannels}

BaseFactors == {Ratio(1, 2), Ratio(3, 4), Ratio(17, 20), One}

StartValues == {Zero, One}

VARIABLES
  dictionary,             \* the morphTargetDictionary handed to createBlendshapeMapping
  mapping,                \* the Map it returned
  resolved,               \* whether createBlendshapeMapping has returned
  blendshapeData,         \* the frame handed to applyBlendshapes
  morphTargetInfluences,  \* the slot values of the mesh
  blendshapeMapping,      \* the binding handed to applyBlendshapes
  smoothingFactor,        \* the base factor handed to applyBlendshapes
  startInfluences,        \* the slot values before the first call
  calls,                  \* applyBlendshapes calls made so far
  gltf,                   \* useGLTF: the nodes of the scene loaded for each avatar
  avatarKey,              \* AvatarModel props of the last committed render
  blendshapes,
  headRotation,
  poseData,
  meshRef,                \* AvatarModel refs
  blendshapeMappingRef,
  morphTargetMeshRef,
  leftEyeBoneRef,
  rightEyeBoneRef,
  eyelidBonesRef,
  bodyBonesRef,
  lastAvatarRef,
  effectPending,          \* the rig-load effect is scheduled and has not run
  sceneInfluences,        \* morphTargetInfluences of every mesh with morph targets
  rotation,               \* rotation of every bone and scene root
  lastStep,               \* the last step taken and the retargeting calls it made
  frames,                 \* frame callbacks run so far
  swaps,                  \* avatar changes so far
  renders,                \* re-renders with new tracking data so far
  result,                 \* the PoseLandmarkerResult handed to extractPoseData
  pose,                   \* the PoseData it returned
  extracted,              \* whether extractPoseData has returned
  bodyBones,              \* the BodyBones handed to applyPoseToBones
  boneRotation,           \* rotation of every bone of the posed rig
  previousRotation,       \* the rotations before the last applyPoseToBones call
  poseFactor,             \* the factor handed to applyPoseToBones
  poseCalls,              \* applyPoseToBones calls made so far
  eyelidState,            \* the EyelidState handed to applyEyelidBlink
  eyelidBones,            \* the EyelidBones handed to applyEyelidBlink
  lidRotation,            \* rotation of every bone of the blinking rig
  previousLidRotation,    \* the rotations before the last applyEyelidBlink call
  lidFactor,              \* the factor handed to applyEyelidBlink
  lidCalls,               \* applyEyelidBlink calls made so far
  skeleton,               \* the scene handed to findBodyBones
  foundBodyBones,         \* the BodyBones it returned
  searched,               \* whether findBodyBones has returned
  foundEyeBones,          \* what findEyeBones returned
  foundEyelidBones,       \* what findEyelidBones returned
  gazeFrame,              \* the BlendshapeData handed to extractEyeGaze
  eyeGaze,                \* the EyeGaze it returned
  gazeExtracted,          \* whether extractEyeGaze has returned
  poseLandmarkerLoaded,   \* usePoseLandmarker: whether poseLandmarker is set
  videoTime,              \* video.currentTime
  poseRefs,               \* usePoseLandmarker: the four refs
  poseReturned,           \* what the last detectPose call returned
  hookCalls,              \* detectPose calls made so far
  validPoses,             \* valid detections so far
  missesSinceValid,       \* calls without a valid pose since the last valid one
  faceLandmarkerLoaded,   \* useFaceLandmarker: whether faceLandmarker is set
  lastTimestampRef,       \* useFaceLandmarker: lastTimestampRef.current
  faceCall,               \* the inputs of the last detectFace call
  faceReturned,           \* what the last detectFace call returned
  passedTimestamps,       \* the timestamps passed to detectForVideo, in order
  faceCalls,              \* detectFace calls made so far
  getUserMediaSupported,  \* whether navigator.mediaDevices.getUserMedia exists
  webcamEffects,          \* useWebcam: the instances of the effect, in order
  liveStreams,            \* the acquired streams whose tracks are not stopped
  stoppedStreams,         \* the acquired streams whose tracks are stopped
  videoMounted,           \* whether videoRef.current is the video element
  srcObject,              \* videoRef.current.srcObject
  metadataPending,        \* an onloadedmetadata handler is set and not yet run
  isReady,                \* useWebcam: isReady
  webcamError,            \* useWebcam: whether error is set
  bodyTrackingEnabled,    \* MemojiApp: bodyTrackingEnabled
  faceResult,             \* MemojiApp: faceResult
  poseResult,             \* MemojiApp: poseResult
  runDetection,           \* what the committed runDetection callback closes over
  startEffectDue,         \* a commit changed the start effect's dependencies
  animationRef,           \* MemojiApp: animationRef.current, 0 for null
  pendingFrames,          \* the animation-frame callbacks requested and not yet run
  nextHandle              \* the handle requestAnimationFrame returns next

resolveVars == <<dictionary, mapping, resolved>>

smoothVars == <<blendshapeData, morphTargetInfluences, blendshapeMapping,
                smoothingFactor, startInfluences, calls>>

refVars == <<blendshapeMappingRef, morphTargetMeshRef, leftEyeBoneRef,
             rightEyeBoneRef, eyelidBonesRef, bodyBonesRef, lastAvatarRef>>

avatarVars == <<gltf, avatarKey, blendshapes, headRotation, poseData, meshRef,
                refVars, effectPending, sceneInfluences, rotation, lastStep,
                frames, swaps, renders>>

poseVars == <<result, pose, extracted, bodyBones, boneRotation, previousRotation,
              poseFactor, poseCalls>>

lidVars == <<eyelidState, eyelidBones, lidRotation, previousLidRotation, lidFactor,
             lidCalls>>

skeletonVars == <<skeleton, foundBodyBones, searched>>

retargetVars == <<poseVars, lidVars, skeletonVars>>

eyeBoneVars == <<foundEyeBones, foundEyelidBones>>

gazeVars == <<gazeFrame, eyeGaze, gazeExtracted>>

poseHookVars == <<poseLandmarkerLoaded, videoTime, poseRefs, poseReturned, hookCalls,
                  validPoses, missesSinceValid>>

faceHookVars == <<faceLandmarkerLoaded, lastTimestampRef, faceCall, faceReturned,
                  passedTimestamps, faceCalls>>

webcamVars == <<getUserMediaSupported, webcamEffects, liveStreams, stoppedStreams,
                videoMounted, srcObject, metadataPending, isReady, webcamError>>

appVars == <<bodyTrackingEnabled, faceResult, poseResult, runDetection, startEffectDue,
             animationRef, pendingFrames, nextHandle>>

hookVars == <<eyeBoneVars, gazeVars, poseHookVars, faceHookVars, webcamVars, appVars>>

vars == <<resolveVars, smoothVars, avatarVars, retargetVars, hookVars>>

\* the AvatarModel component not mounted
IdleAvatar ==
  /\ gltf = <<>>
  /\ avatarKey = "avatar"
  /\ blendshapes = <<>>
  /\ headRotation = Null
  /\ poseData = Null
  /\ meshRef = Null
  /\ blendshapeMappingRef = <<>>
  /\ morphTargetMeshRef = Null
  /\ leftEyeBoneRef = Null
  /\ rightEyeBoneRef = Null
  /\ eyelidBonesRef = Null
  /\ bodyBonesRef = Null
  /\ lastAvatarRef = ""
  /\ effectPending = FALSE
  /\ sceneInfluences = <<>>
  /\ rotation = <<>>
  /\ lastStep = Null
  /\ frames = 0
  /\ swaps = 0
  /\ renders = 0

\* the pose harness at rest
IdlePose ==
  /\ result = Null
  /\ pose = Null
  /\ extracted = FALSE
  /\ bodyBones = Null
  /\ boneRotation = <<>>
  /\ previousRotation = <<>>
  /\ poseFactor = One
  /\ poseCalls = 0

\* the eyelid harness at rest
IdleEyelids ==
  /\ eyelidState = Null
  /\ eyelidBones = Null
  /\ lidRotation = <<>>
  /\ previousLidRotation = <<>>
  /\ lidFactor = One
  /\ lidCalls = 0

\* the skeleton harness at rest
IdleSkeleton ==
  /\ skeleton = Null
  /\ foundBodyBones = Null
  /\ searched = FALSE

\* the resolver harness at rest
IdleResolve ==
  /\ dictionary = NoDictionary
  /\ mapping = <<>>
  /\ resolved = FALSE

\* the eye and eyelid bone searches not yet made
IdleEyeBones ==
  /\ foundEyeBones = Null
  /\ foundEyelidBones = Null

\* extractEyeGaze not yet called
IdleGaze ==
  /\ gazeFrame = <<>>
  /\ eyeGaze = Null
  /\ gazeExtracted = FALSE

\* usePoseLandmarker as mounted: lines 14-20
IdlePoseHook ==
  /\ poseLandmarkerLoaded = FALSE
  /\ videoTime = 0
  /\ poseRefs = [lastVideoTime |-> -1, smoothedLandmarks |-> Null,
                 framesSinceValidPose |-> 0, lastValidResult |-> Null]
  /\ poseReturned = Null
  /\ hookCalls = 0
  /\ validPoses = 0
  /\ missesSinceValid = 0

\* useFaceLandmarker as mounted: lines 18-21
IdleFaceHook ==
  /\ faceLandmarkerLoaded = FALSE
  /\ lastTimestampRef = -1
  /\ faceCall = Null
  /\ faceReturned = Null
  /\ passedTimestamps = << >>
  /\ faceCalls = 0

\* useWebcam not mounted
IdleWebcam ==
  /\ getUserMediaSupported = TRUE
  /\ webcamEffects = << >>
  /\ liveStreams = {}
  /\ stoppedStreams = {}
  /\ videoMounted = FALSE
  /\ srcObject = Null
  /\ metadataPending = FALSE
  /\ isReady = FALSE
  /\ webcamError = FALSE

\* MemojiApp not mounted
IdleApp ==
  /\ bodyTrackingEnabled = FALSE
  /\ faceResult = Null
  /\ poseResult = Null
  /\ runDetection = Null
  /\ startEffectDue = FALSE
  /\ animationRef = 0
  /\ pendingFrames = {}
  /\ nextHandle = 1

IdleHooks ==
  IdleEyeBones /\ IdleGaze /\ IdlePoseHook /\ IdleFaceHook /\ IdleWebcam /\ IdleApp

\* the smoother harness at rest
IdleSmooth ==
  /\ blendshapeData = <<>>
  /\ morphTargetInfluences = <<>>
  /\ blendshapeMapping = <<>>
  /\ smoothingFactor = One
  /\ startInfluences = <<>>
  /\ calls = 0

(***************************************************************************)
(* SpecResolve: createBlendshapeMapping applied to one dictionary.          *)
(***************************************************************************)
InitResolve ==
  /\ IdleHooks
  /\ dictionary \in Dictionaries
  /\ mapping = <<>>
  /\ resolved = FALSE
  /\ IdleSmooth
  /\ IdleAvatar
  /\ IdlePose
  /\ IdleEyelids
  /\ IdleSkeleton

Resolve ==
  /\ ~resolved
  /\ mapping' = createBlendshapeMapping(dictionary)
  /\ resolved' = TRUE
  /\ UNCHANGED <<dictionary, smoothVars, avatarVars, retargetVars,
                 hookVars>>

NextResolve == Resolve

SpecResolve == InitResolve /\ [][NextResolve]_vars

(***************************************************************************)
(* SpecSmooth: applyBlendshapes called again and again on a constant frame. *)
(***************************************************************************)
InitSmooth ==
  /\ IdleHooks
  /\ IdleResolve
  /\ IdleAvatar
  /\ IdlePose
  /\ IdleEyelids
  /\ IdleSkeleton
  /\ \E names \in SmoothTargetNames :
       /\ blendshapeMapping = createBlendshapeMapping(MorphTargetDictionary(names))
       /\ startInfluences \in [0..(Len(names) - 1) -> StartValues]
  /\ morphTargetInfluences = startInfluences
  /\ blendshapeData \in Frames
  /\ smoothingFactor \in BaseFactors
  /\ calls = 0

Representable ==
  \A i \in DOMAIN morphTargetInfluences :
    morphTargetInfluences[i].d <= MaxDenominator

ApplyBlendshapes ==
  /\ calls < MaxCalls
  /\ Representable
  /\ morphTargetInfluences' =
       applyBlendshapes(blendshapeData, morphTargetInfluences, blendshapeMapping,
                        smoothingFactor)
  /\ calls' = calls + 1
  /\ UNCHANGED <<blendshapeData, blendshapeMapping, smoothingFactor,
                 startInfluences, resolveVars, avatarVars, retargetVars,
                 hookVars>>

NextSmooth == ApplyBlendshapes

SpecSmooth == InitSmooth /\ [][NextSmooth]_vars

(***************************************************************************)
(* SpecFrames: applyBlendshapes called on a sequence of frames, as useFrame *)
(* does, with bindings resolved from catalogs with one blink target for     *)
(* both eyes, with one blink target per eye, and with a smile target.       *)
(***************************************************************************)
MaxFrameCalls == 3

BlinkTargetNames ==
  { <<"eyesClosed">>, <<"eyesClosed", "mouthSmile_L">>, <<"EyeBlink_L", "EyeBlink_R">> }

BlinkChannels == {"eyeBlinkLeft", "eyeBlinkRight"}

BlinkAmplitudes == {Zero, One}

BlinkSmileFrames ==
  UNION {[present \cup smile -> BlinkAmplitudes] :
           present \in SUBSET BlinkChannels, smile \in {{}, {"mouthSmileLeft"}}}

FrameFactors == {Ratio(1, 2), One}

InitFrames ==
  /\ IdleHooks
  /\ IdleResolve
  /\ IdleAvatar
  /\ IdlePose
  /\ IdleEyelids
  /\ IdleSkeleton
  /\ \E names \in BlinkTargetNames :
       /\ blendshapeMapping = createBlendshapeMapping(MorphTargetDictionary(names))
       /\ startInfluences \in [0..(Len(names) - 1) -> StartValues]
  /\ morphTargetInfluences = startInfluences
  /\ blendshapeData = <<>>
  /\ smoothingFactor \in FrameFactors
  /\ calls = 0

\* AvatarPanel.tsx lines 192-199: one frame tick with the blendshapes of the
\* latest render
\* a slot bound twice is written twice in a call, and a write multiplies the
\* denominator by at most 20
FrameRepresentable ==
  \A i \in DOMAIN morphTargetInfluences :
    morphTargetInfluences[i].d * 20 <= MaxDenominator

ApplyFrame(frame) ==
  /\ calls < MaxFrameCalls
  /\ FrameRepresentable
  /\ blendshapeData' = frame
  /\ morphTargetInfluences' =
       applyBlendshapes(frame, morphTargetInfluences, blendshapeMapping,
                        smoothingFactor)
  /\ calls' = calls + 1
  /\ UNCHANGED <<blendshapeMapping, smoothingFactor, startInfluences,
                 resolveVars, avatarVars, retargetVars,
                 hookVars>>

NextFrames == \E frame \in BlinkSmileFrames : ApplyFrame(frame)

SpecFrames == InitFrames /\ [][NextFrames]_vars

(***************************************************************************)
(* AvatarPanel.tsx: the AvatarModel component.  Its props are those of the  *)
(* last committed render; its refs live as long as the component, which     *)
(* stays mounted when the avatar changes.                                   *)
(***************************************************************************)
AvatarKeys == {"avatar", "doll-ramen", "spartan-halo"}

AVATARS ==
  ( "avatar" :> [path |-> "/avatars/avatar.glb"] ) @@
  ( "doll-ramen" :> [path |-> "/avatars/doll_ramen_arkit_facial_rig_test.glb"] ) @@
  ( "spartan-halo" :> [path |-> "/avatars/spartan_halo.glb"] )

\* the scene useGLTF returns for the avatar's path: one object per path
Scene(key) == [key |-> key, nodes |-> gltf[key]]

\* lines 127-133: the last mesh of the traversal with a morphTargetDictionary
FoundMesh(scene) ==
  LET found == {i \in DOMAIN scene.nodes :
                  /\ scene.nodes[i].kind = "Mesh"
                  /\ scene.nodes[i].morphTargetDictionary.present}
  IN  IF found = {} THEN Null ELSE Object(scene.key, Greatest(found))

\* the morphTargetDictionary of a mesh object
DictionaryOf(mesh) == gltf[mesh.scene][mesh.node].morphTargetDictionary

NoEyelidBones ==
  [leftUpper |-> Null, leftLower |-> Null, rightUpper |-> Null, rightLower |-> Null]

\* the rigs the three .glb files may hold
FaceRig ==
  << Group("Scene"), Bone("Hips"), Bone("LeftArm"), Bone("LeftForeArm"),
     Bone("RightArm"), Bone("RightForeArm"), Bone("LeftEye"), Bone("RightEye"),
     Mesh("Wolf3D_Head", <<"eyeBlinkLeft", "mouthSmileLeft">>),
     Mesh("Wolf3D_Teeth", <<"mouthSmileLeft", "jawOpen">>) >>

ArkitRig ==
  << Group("Sketchfab_model"), Bone("EyelidDown_L"),
     Mesh("Face", <<"Basis", "EyeBlink_L", "mouthSmile_L">>) >>

ArmorRig ==
  << Group("Armature"), Bone("Eye_L"), Bone("EyelidUp_L"), Bone("EyelidDown_R"),
     Bone("UpperArm_R"), Bone("LowerArm_R"), PlainMesh("Armor") >>

RigPool == {FaceRig, ArkitRig, ArmorRig}

\* the props the detection loop hands down
Smile ==
  [ eyeBlinkLeft |-> One, mouthSmileLeft |-> Ratio(1, 2),
    eyeLookDownLeft |-> One, eyeLookInRight |-> Ratio(1, 2) ]

NoBlendshapes == <<>>

InitialHeadRotation == [x |-> Zero, y |-> Zero, z |-> Zero]

TiltedHead == [x |-> Ratio(1, 4), y |-> Ratio(-1, 4), z |-> Zero]

ArmsPose ==
  [ leftShoulder |-> Vector3(Ratio(1, 4), Ratio(1, 2), Zero),
    rightShoulder |-> Vector3(Ratio(3, 4), Ratio(1, 2), Zero),
    leftElbow |-> Vector3(Zero, Ratio(1, 4), Zero),
    rightElbow |-> Vector3(Ratio(3, 4), Ratio(3, 4), Zero),
    leftWrist |-> Vector3(Zero, Zero, Zero),
    rightWrist |-> Vector3(One, Ratio(3, 4), Zero),
    leftHip |-> Null,
    rightHip |-> Null ]

\* what one pass of the detection loop may hand down
Detections ==
  { [blendshapes |-> Smile, headRotation |-> TiltedHead, poseData |-> Null],
    [blendshapes |-> Smile, headRotation |-> InitialHeadRotation, poseData |-> ArmsPose],
    [blendshapes |-> NoBlendshapes, headRotation |-> TiltedHead,
     poseData |-> [ArmsPose EXCEPT !.leftShoulder = Null]] }

MaxFrames == 3

MaxSwaps == 2

MaxRenders == 1

\* every object of the loaded scenes
SceneObjects == UNION {{Object(k, i) : i \in DOMAIN gltf[k]} : k \in AvatarKeys}

NodeOf(object) == gltf[object.scene][object.node]

\* the meshes that carry morphTargetInfluences
MorphMeshes == {o \in SceneObjects : NodeOf(o).morphTargetDictionary.present}

\* the objects whose rotation the frame callback may write
RotatingObjects == {o \in SceneObjects : NodeOf(o).kind \in {"Bone", "Group"}}

InitAvatar ==
  /\ gltf \in {assets \in [AvatarKeys -> RigPool] :
                 \A k1, k2 \in AvatarKeys : assets[k1] = assets[k2] => k1 = k2}
  /\ avatarKey = "avatar"
  /\ blendshapes = NoBlendshapes
  /\ headRotation = InitialHeadRotation
  /\ poseData = Null
  /\ meshRef = Object("avatar", 1)
  /\ blendshapeMappingRef = <<>>
  /\ morphTargetMeshRef = Null
  /\ leftEyeBoneRef = Null
  /\ rightEyeBoneRef = Null
  /\ eyelidBonesRef = NoEyelidBones
  /\ bodyBonesRef = Null
  /\ lastAvatarRef = ""
  /\ effectPending = TRUE
  /\ sceneInfluences =
       [mesh \in MorphMeshes |->
          [slot \in 0..(Len(DictionaryOf(mesh).entries) - 1) |-> Zero]]
  /\ rotation = [o \in RotatingObjects |-> [x |-> RealZero, y |-> RealZero, z |-> RealZero]]
  /\ lastStep = [kind |-> "mount", pending |-> TRUE, retargeted |-> {}]
  /\ frames = 0
  /\ swaps = 0
  /\ renders = 0

\* lines 121-187: the rig-load effect, run once after a commit that changed
\* the scene or the path
RigLoadEffect ==
  /\ effectPending
  /\ LET avatarConfig == AVATARS[avatarKey]
         scene == Scene(avatarKey)
         isNewAvatar == lastAvatarRef # avatarConfig.path
         foundMesh == FoundMesh(scene)
         eyeBones == findEyeBones(scene)
     IN  /\ lastAvatarRef' = avatarConfig.path
         /\ IF foundMesh # Null
            THEN /\ morphTargetMeshRef' = foundMesh
                 /\ blendshapeMappingRef' = createBlendshapeMapping(DictionaryOf(foundMesh))
            ELSE UNCHANGED <<morphTargetMeshRef, blendshapeMappingRef>>
         /\ leftEyeBoneRef' = eyeBones.leftEye
         /\ rightEyeBoneRef' = eyeBones.rightEye
         /\ eyelidBonesRef' = findEyelidBones(scene)
         /\ bodyBonesRef' = IF isNewAvatar THEN findBodyBones(scene) ELSE bodyBonesRef
  /\ effectPending' = FALSE
  /\ lastStep' = [kind |-> "effect", pending |-> FALSE, retargeted |-> {}]
  /\ UNCHANGED <<gltf, avatarKey, blendshapes, headRotation, poseData, meshRef,
                 sceneInfluences, rotation, frames, swaps, renders,
                 resolveVars, smoothVars, retargetVars,
                 hookVars>>

\* a retargeting call of the frame callback and an object it was handed
Call(name, objects) == {[call |-> name, object |-> o] : o \in objects \ {Null}}

\* lines 191-199: the blendshapes go to the cached mesh through the cached
\* binding
FrameInfluences ==
  IF morphTargetMeshRef # Null
  THEN [sceneInfluences EXCEPT ![morphTargetMeshRef] =
          applyBlendshapes(blendshapes, @, blendshapeMappingRef, Ratio(1, 2))]
  ELSE sceneInfluences

\* lines 202-211: eye gaze, when an eye bone is cached
FrameGaze(r) ==
  IF leftEyeBoneRef # Null \/ rightEyeBoneRef # Null
  THEN applyEyeGazeToBones(r, extractEyeGaze(blendshapes), leftEyeBoneRef,
                           rightEyeBoneRef, Ratio(2, 5))
  ELSE r

\* lines 214-218: eyelid blink, when an upper eyelid bone is cached
FrameEyelids(r) ==
  IF eyelidBonesRef.leftUpper # Null \/ eyelidBonesRef.rightUpper # Null
  THEN applyEyelidBlink(r, extractEyelidState(blendshapes), eyelidBonesRef, Ratio(7, 10))
  ELSE r

\* lines 221-224: body pose, when there is pose data and cached body bones
FramePose(r) ==
  IF poseData # Null /\ bodyBonesRef # Null
  THEN applyPoseToBones(r, poseData, bodyBonesRef, Ratio(3, 10))
  ELSE r

\* lines 227-242: the head rotation goes to the primitive's object
FrameHead(r) ==
  IF meshRef # Null /\ headRotation # Null
  THEN LerpZ(LerpY(LerpX(r, meshRef, FromRatio(headRotation.x), Ratio(3, 10)),
                   meshRef, FromRatio(headRotation.y), Ratio(3, 10)),
             meshRef, FromRatio(headRotation.z), Ratio(3, 10))
  ELSE r

\* the retargeting calls of one frame, each with the objects it was handed
FrameCalls ==
  (IF morphTargetMeshRef # Null
   THEN Call("applyBlendshapes", {morphTargetMeshRef})
   ELSE {}) \cup
  (IF leftEyeBoneRef # Null \/ rightEyeBoneRef # Null
   THEN Call("applyEyeGazeToBones", {leftEyeBoneRef, rightEyeBoneRef})
   ELSE {}) \cup
  (IF eyelidBonesRef.leftUpper # Null \/ eyelidBonesRef.rightUpper # Null
   THEN Call("applyEyelidBlink",
             {eyelidBonesRef.leftUpper, eyelidBonesRef.leftLower,
              eyelidBonesRef.rightUpper, eyelidBonesRef.rightLower})
   ELSE {}) \cup
  (IF poseData # Null /\ bodyBonesRef # Null
   THEN Call("applyPoseToBones",
             {bodyBonesRef.leftArm, bodyBonesRef.rightArm,
              bodyBonesRef.leftForeArm, bodyBonesRef.rightForeArm})
   ELSE {})

\* lines 190-243: the useFrame callback
Frame ==
  /\ frames < MaxFrames
  /\ sceneInfluences' = FrameInfluences
  /\ rotation' = FrameHead(FramePose(FrameEyelids(FrameGaze(rotation))))
  /\ lastStep' = [kind |-> "frame", pending |-> effectPending, retargeted |-> FrameCalls]
  /\ frames' = frames + 1
  /\ UNCHANGED <<gltf, avatarKey, blendshapes, headRotation, poseData, meshRef,
                 refVars, effectPending, swaps, renders,
                 resolveVars, smoothVars, retargetVars,
                 hookVars>>

\* MemojiApp.tsx handleAvatarChange, then the commit of AvatarModel with the
\* new avatar's scene; a pending effect is flushed before a render starts
SelectAvatar(newAvatar) ==
  /\ swaps < MaxSwaps
  /\ ~effectPending
  /\ newAvatar # avatarKey
  /\ avatarKey' = newAvatar
  /\ meshRef' = Object(newAvatar, 1)
  /\ effectPending' = TRUE
  /\ lastStep' = [kind |-> "swap", pending |-> TRUE, retargeted |-> {}]
  /\ swaps' = swaps + 1
  /\ UNCHANGED <<gltf, blendshapes, headRotation, poseData, refVars,
                 sceneInfluences, rotation, frames, renders,
                 resolveVars, smoothVars, retargetVars,
                 hookVars>>

\* a re-render with new tracking data: the effect's dependencies are
\* unchanged, so only the props change
Render(newBlendshapes, newHeadRotation, newPoseData) ==
  /\ renders < MaxRenders
  /\ ~effectPending
  /\ <<newBlendshapes, newHeadRotation, newPoseData>> #
       <<blendshapes, headRotation, poseData>>
  /\ blendshapes' = newBlendshapes
  /\ headRotation' = newHeadRotation
  /\ poseData' = newPoseData
  /\ lastStep' = [kind |-> "render", pending |-> FALSE, retargeted |-> {}]
  /\ renders' = renders + 1
  /\ UNCHANGED <<gltf, avatarKey, meshRef, refVars, effectPending,
                 sceneInfluences, rotation, frames, swaps,
                 resolveVars, smoothVars, retargetVars,
                 hookVars>>

Init ==
  /\ IdleHooks
  /\ InitAvatar
  /\ IdleResolve
  /\ IdleSmooth
  /\ IdlePose
  /\ IdleEyelids
  /\ IdleSkeleton

Next ==
  \/ RigLoadEffect
  \/ Frame
  \/ \E newAvatar \in AvatarKeys : SelectAvatar(newAvatar)
  \/ \E detection \in Detections :
       Render(detection.blendshapes, detection.headRotation, detection.poseData)

Spec == Init /\ [][Next]_vars

(***************************************************************************)
(* SpecPose: extractPoseData applied to one detection result, then          *)
(* applyPoseToBones called on the bones of one rig.  Landmarks lie on a     *)
(* grid of eighths; an arm is straight and level, raised by a right angle   *)
(* with the forearm level, or lowered by half a right angle with the        *)
(* forearm turned back up.                                                  *)
(***************************************************************************)
MaxPoseCalls == 2

Landmark(x, y) == [x |-> Ratio(x, 8), y |-> Ratio(y, 8), z |-> Zero]

\* the shapes of an arm whose shoulder is at (x, y) and that points to side
\* dir of the image
ArmShapes(x, y, dir) ==
  { [shoulder |-> Landmark(x, y), elbow |-> Landmark(x + dir, y),
     wrist |-> Landmark(x + 2 * dir, y)],
    [shoulder |-> Landmark(x, y), elbow |-> Landmark(x + dir, y + 1),
     wrist |-> Landmark(x + dir, y)],
    [shoulder |-> Landmark(x, y), elbow |-> Landmark(x, y - 1),
     wrist |-> Landmark(x + dir, y - 1)] }

ArmIndices ==
  { POSE_LANDMARKS.LEFT_SHOULDER, POSE_LANDMARKS.RIGHT_SHOULDER,
    POSE_LANDMARKS.LEFT_ELBOW, POSE_LANDMARKS.RIGHT_ELBOW,
    POSE_LANDMARKS.LEFT_WRIST, POSE_LANDMARKS.RIGHT_WRIST }

\* a detected pose with every arm landmark filled
FullLandmarks(left, right) ==
  (POSE_LANDMARKS.LEFT_SHOULDER :> left.shoulder) @@
  (POSE_LANDMARKS.LEFT_ELBOW :> left.elbow) @@
  (POSE_LANDMARKS.LEFT_WRIST :> left.wrist) @@
  (POSE_LANDMARKS.RIGHT_SHOULDER :> right.shoulder) @@
  (POSE_LANDMARKS.RIGHT_ELBOW :> right.elbow) @@
  (POSE_LANDMARKS.RIGHT_WRIST :> right.wrist)

\* the landmark arrays: any of the arm landmarks may be missing
LandmarkArrays ==
  UNION { { [i \in filled |-> FullLandmarks(left, right)[i]] : filled \in SUBSET ArmIndices } :
          left \in ArmShapes(5, 4, 1), right \in ArmShapes(3, 4, -1) }

PoseResults ==
  { [present |-> FALSE, landmarks |-> <<>>], [present |-> TRUE, landmarks |-> <<>>] }
  \cup { [present |-> TRUE, landmarks |-> <<array>>] : array \in LandmarkArrays }

\* the rigs whose bones are posed
PosedScenes ==
  { [key |-> "avatar", nodes |-> FaceRig], [key |-> "spartan-halo", nodes |-> ArmorRig] }

PoseFactors == {Ratio(3, 10), One}

\* the rotation every bone starts from
StartRotations ==
  { [x |-> RealZero, y |-> RealZero, z |-> RealZero],
    [x |-> FromRatio(Ratio(1, 4)), y |-> FromRatio(Ratio(1, 4)),
     z |-> FromRatio(Ratio(-1, 4))] }

InitPose ==
  /\ IdleHooks
  /\ IdleResolve
  /\ IdleSmooth
  /\ IdleAvatar
  /\ IdleEyelids
  /\ IdleSkeleton
  /\ result \in PoseResults
  /\ pose = Null
  /\ extracted = FALSE
  /\ \E scene \in PosedScenes, start \in StartRotations :
       /\ bodyBones = findBodyBones(scene)
       /\ boneRotation = [o \in {Object(scene.key, i) : i \in Bones(scene)} |-> start]
  /\ previousRotation = boneRotation
  /\ poseFactor \in PoseFactors
  /\ poseCalls = 0

\* MemojiApp.tsx line 80: the pose of one detection pass
ExtractPoseData ==
  /\ ~extracted
  /\ pose' = extractPoseData(result)
  /\ extracted' = TRUE
  /\ UNCHANGED <<result, bodyBones, boneRotation, previousRotation, poseFactor,
                 poseCalls, resolveVars, smoothVars, avatarVars, lidVars, skeletonVars,
                 hookVars>>

\* AvatarPanel.tsx lines 221-224: one frame's call, made when there is pose
\* data
ApplyPoseToBones ==
  /\ extracted
  /\ pose # Null
  /\ poseCalls < MaxPoseCalls
  /\ previousRotation' = boneRotation
  /\ boneRotation' = applyPoseToBones(boneRotation, pose, bodyBones, poseFactor)
  /\ poseCalls' = poseCalls + 1
  /\ UNCHANGED <<result, pose, extracted, bodyBones, poseFactor,
                 resolveVars, smoothVars, avatarVars, lidVars, skeletonVars,
                 hookVars>>

NextPose == ExtractPoseData \/ ApplyPoseToBones

SpecPose == InitPose /\ [][NextPose]_vars

(***************************************************************************)
(* SpecEyelids: applyEyelidBlink called again and again with a constant     *)
(* eyelid state on the eyelid bones of one rig.                             *)
(***************************************************************************)
MaxLidCalls == 3

\* rigs with all four eyelid bones, with two of them, with the lower ones
\* only
LidRig ==
  << Group("Armature"), Bone("Eyelid_Upper_L"), Bone("Eyelid_Lower_L"),
     Bone("Eyelid_Upper_R"), Bone("Eyelid_Lower_R") >>

LowerLidRig == << Group("Armature"), Bone("EyelidDown_L"), Bone("EyelidDown_R") >>

LidScenes ==
  { [key |-> "avatar", nodes |-> LidRig], [key |-> "spartan-halo", nodes |-> ArmorRig],
    [key |-> "doll-ramen", nodes |-> LowerLidRig] }

\* the frames the eyelid state is extracted from
BlinkFrames ==
  { [eyeBlinkLeft |-> One, eyeBlinkRight |-> One], [eyeBlinkLeft |-> One],
    [eyeBlinkLeft |-> Ratio(1, 2), eyeBlinkRight |-> One] }

LidFactors == {Ratio(7, 10), One}

\* the x rotation an eyelid bone starts from
LidStarts == {Zero, Ratio(2, 5), Ratio(-3, 25)}

InitEyelids ==
  /\ IdleHooks
  /\ IdleResolve
  /\ IdleSmooth
  /\ IdleAvatar
  /\ IdlePose
  /\ IdleSkeleton
  /\ \E frame \in BlinkFrames : eyelidState = extractEyelidState(frame)
  /\ \E scene \in LidScenes :
       /\ eyelidBones = findEyelidBones(scene)
       /\ \E start \in [{Object(scene.key, i) : i \in Bones(scene)} -> LidStarts] :
            lidRotation =
              [o \in DOMAIN start |-> [x |-> FromRatio(start[o]), y |-> RealZero, z |-> RealZero]]
  /\ previousLidRotation = lidRotation
  /\ lidFactor \in LidFactors
  /\ lidCalls = 0

\* AvatarPanel.tsx line 217: one frame's call
ApplyEyelidBlink ==
  /\ lidCalls < MaxLidCalls
  /\ previousLidRotation' = lidRotation
  /\ lidRotation' = applyEyelidBlink(lidRotation, eyelidState, eyelidBones, lidFactor)
  /\ lidCalls' = lidCalls + 1
  /\ UNCHANGED <<eyelidState, eyelidBones, lidFactor,
                 resolveVars, smoothVars, avatarVars, poseVars, skeletonVars,
                 hookVars>>

NextEyelids == ApplyEyelidBlink

SpecEyelids == InitEyelids /\ [][NextEyelids]_vars

(***************************************************************************)
(* SpecSkeleton: findBodyBones applied to one scene.                        *)
(***************************************************************************)
MaxNodes == 3

\* the nodes a scene is made of: bones that match a joint's pattern in
\* different spellings, a bone that matches two joints, a bone and a group
\* that match none, a group with a bone's name
NodePool ==
  { Bone("LeftArm"), Bone("mixamorigLEFTARM"), Bone("forearm_L"), Bone("Hips"),
    Bone("Tail"), Group("LeftArm"), Group("Armature") }

Skeletons ==
  { [key |-> "avatar", nodes |-> nodes] :
      nodes \in UNION {[1..n -> NodePool] : n \in 0..MaxNodes} }

InitSkeleton ==
  /\ IdleHooks
  /\ IdleResolve
  /\ IdleSmooth
  /\ IdleAvatar
  /\ IdlePose
  /\ IdleEyelids
  /\ skeleton \in Skeletons
  /\ foundBodyBones = Null
  /\ searched = FALSE

\* AvatarPanel.tsx line 179: the body bones of the loaded scene
FindBodyBones ==
  /\ ~searched
  /\ foundBodyBones' = findBodyBones(skeleton)
  /\ searched' = TRUE
  /\ UNCHANGED <<skeleton, resolveVars, smoothVars, avatarVars, poseVars, lidVars,
                 hookVars>>

NextSkeleton == FindBodyBones

SpecSkeleton == InitSkeleton /\ [][NextSkeleton]_vars

(***************************************************************************)
(* SpecEyeBones: findEyeBones and findEyelidBones applied to one scene, as  *)
(* the rig-load effect applies them.                                        *)
(***************************************************************************)
\* an eye bone in the listed spelling, in upper case with a suffix and in
\* lower case, eyelid bones, a bone that is neither, a group with an eye
\* bone's name
EyeNodePool ==
  { Bone("LeftEye"), Bone("LEFTEYE_01"), Bone("lefteye"), Bone("LeftEyelidUpper"),
    Bone("EyelidUp_R"), Bone("Head"), Group("RightEye") }

EyeSkeletons ==
  { [key |-> "avatar", nodes |-> nodes] :
      nodes \in UNION {[1..n -> EyeNodePool] : n \in 0..MaxNodes} }

InitEyeBones ==
  /\ IdleResolve
  /\ IdleSmooth
  /\ IdleAvatar
  /\ IdlePose
  /\ IdleEyelids
  /\ IdleEyeBones
  /\ IdleGaze
  /\ IdlePoseHook
  /\ IdleFaceHook
  /\ IdleWebcam
  /\ IdleApp
  /\ skeleton \in EyeSkeletons
  /\ foundBodyBones = Null
  /\ searched = FALSE

\* AvatarPanel.tsx lines 148-155: the eye and eyelid bones of the loaded scene
FindEyeBones ==
  /\ ~searched
  /\ foundEyeBones' = findEyeBones(skeleton)
  /\ foundEyelidBones' = findEyelidBones(skeleton)
  /\ searched' = TRUE
  /\ UNCHANGED <<skeleton, foundBodyBones, resolveVars, smoothVars, avatarVars,
                 poseVars, lidVars, gazeVars, poseHookVars, faceHookVars,
                 webcamVars,
                 appVars>>

NextEyeBones == FindEyeBones

SpecEyeBones == InitEyeBones /\ [][NextEyeBones]_vars

(***************************************************************************)
(* SpecGaze: extractEyeGaze applied to one frame.  A frame carries any of   *)
(* the eight look channels; the yaw channels at 0, 0.5 or 1, the pitch      *)
(* channels at 0.5 or 1.                                                    *)
(***************************************************************************)
YawChannels ==
  {"eyeLookInLeft", "eyeLookOutLeft", "eyeLookInRight", "eyeLookOutRight"}

PitchChannels ==
  {"eyeLookUpLeft", "eyeLookDownLeft", "eyeLookUpRight", "eyeLookDownRight"}

YawAmplitudes == {Zero, Ratio(1, 2), One}

PitchAmplitudes == {Ratio(1, 2), One}

\* the frame carrying the yaw channels of yawFrame and the pitch channels of
\* pitchFrame
GazeFrame(yawFrame, pitchFrame) ==
  [c \in DOMAIN yawFrame \cup DOMAIN pitchFrame |->
     IF c \in DOMAIN yawFrame THEN yawFrame[c] ELSE pitchFrame[c]]

GazeFrames ==
  { GazeFrame(yawFrame, pitchFrame) :
      yawFrame \in UNION {[yaw -> YawAmplitudes] : yaw \in SUBSET YawChannels},
      pitchFrame \in UNION {[pitch -> PitchAmplitudes] : pitch \in SUBSET PitchChannels} }

InitGaze ==
  /\ IdleResolve
  /\ IdleSmooth
  /\ IdleAvatar
  /\ IdlePose
  /\ IdleEyelids
  /\ IdleSkeleton
  /\ IdleEyeBones
  /\ IdlePoseHook
  /\ IdleFaceHook
  /\ IdleWebcam
  /\ IdleApp
  /\ gazeFrame \in GazeFrames
  /\ eyeGaze = Null
  /\ gazeExtracted = FALSE

\* AvatarPanel.tsx line 202: the gaze of the latest frame
ExtractEyeGaze ==
  /\ ~gazeExtracted
  /\ eyeGaze' = extractEyeGaze(gazeFrame)
  /\ gazeExtracted' = TRUE
  /\ UNCHANGED <<gazeFrame, resolveVars, smoothVars, avatarVars, retargetVars,
                 eyeBoneVars, poseHookVars, faceHookVars, webcamVars,
                 appVars>>

NextGaze == ExtractEyeGaze

SpecGaze == InitGaze /\ [][NextGaze]_vars

(***************************************************************************)
(* SpecPoseHook: detectPose called again and again on a video whose time    *)
(* advances or not between two calls, the detector throwing, finding no     *)
(* pose, finding a pose with both shoulders hidden, or finding a pose.      *)
(***************************************************************************)
MaxHookCalls == 13

MaxValidPoses == 2

ShoulderSeen == [x |-> Ratio(1, 4), y |-> Ratio(1, 2), z |-> Zero, visibility |-> Ratio(9, 10)]

ShoulderMoved == [x |-> Ratio(3, 4), y |-> Ratio(1, 2), z |-> Zero, visibility |-> Ratio(9, 10)]

ShoulderDim == [x |-> Ratio(1, 4), y |-> Ratio(1, 2), z |-> Zero, visibility |-> Ratio(1, 10)]

\* a result with one pose: the landmarks array filled at the two shoulders
PoseOf(left, right) ==
  [present |-> TRUE, landmarks |-> << (11 :> left) @@ (12 :> right) >>]

NoPose == [present |-> TRUE, landmarks |-> << >>]

DetectorOutcomes ==
  {[throws |-> TRUE, result |-> NoPose]} \cup
  { [throws |-> FALSE, result |-> r] :
      r \in { NoPose, PoseOf(ShoulderDim, ShoulderDim), PoseOf(ShoulderSeen, ShoulderSeen),
               PoseOf(ShoulderMoved, ShoulderDim), PoseOf(ShoulderDim, ShoulderSeen) } }

\* the outcome is a pose with a visible shoulder
ValidOutcome(outcome) ==
  /\ ~outcome.throws
  /\ Len(outcome.result.landmarks) > 0
  /\ ~( /\ Invisible(outcome.result.landmarks[1], 11)
        /\ Invisible(outcome.result.landmarks[1], 12) )

InitPoseHook ==
  /\ IdleResolve
  /\ IdleSmooth
  /\ IdleAvatar
  /\ IdlePose
  /\ IdleEyelids
  /\ IdleSkeleton
  /\ IdleEyeBones
  /\ IdleGaze
  /\ IdlePoseHook
  /\ IdleFaceHook
  /\ IdleWebcam
  /\ IdleApp

\* lines 31-42: the detector has been created
LoadPoseLandmarker ==
  /\ ~poseLandmarkerLoaded
  /\ poseLandmarkerLoaded' = TRUE
  /\ UNCHANGED <<videoTime, poseRefs, poseReturned, hookCalls, validPoses,
                 missesSinceValid, resolveVars, smoothVars, avatarVars, retargetVars,
                 eyeBoneVars, gazeVars, faceHookVars, webcamVars,
                 appVars>>

\* the call reaches the detector and the detector finds a valid pose
ValidCall(time, outcome) ==
  /\ poseLandmarkerLoaded
  /\ time # poseRefs.lastVideoTime
  /\ ValidOutcome(outcome)

\* one detectPose call, the video having moved on by elapsed since the last
DetectPose(elapsed, outcome) ==
  /\ hookCalls < MaxHookCalls
  /\ ValidCall(videoTime + elapsed, outcome) => validPoses < MaxValidPoses
  /\ videoTime' = videoTime + elapsed
  /\ poseRefs' =
       detectPose(poseRefs, poseLandmarkerLoaded, videoTime + elapsed, outcome).refs
  /\ poseReturned' =
       detectPose(poseRefs, poseLandmarkerLoaded, videoTime + elapsed, outcome).returned
  /\ hookCalls' = hookCalls + 1
  /\ validPoses' =
       IF ValidCall(videoTime + elapsed, outcome) THEN validPoses + 1 ELSE validPoses
  /\ missesSinceValid' =
       IF ValidCall(videoTime + elapsed, outcome) THEN 0 ELSE missesSinceValid + 1
  /\ UNCHANGED <<poseLandmarkerLoaded, resolveVars, smoothVars, avatarVars,
                 retargetVars, eyeBoneVars, gazeVars,
                 faceHookVars, webcamVars,
                 appVars>>

NextPoseHook ==
  \/ LoadPoseLandmarker
  \/ \E elapsed \in {0, 1}, outcome \in DetectorOutcomes : DetectPose(elapsed, outcome)

SpecPoseHook == InitPoseHook /\ [][NextPoseHook]_vars

(***************************************************************************)
(* SpecFaceHook: detectFace called again and again, the clock read by each  *)
(* call being any value of a small range, the video ready or not, the       *)
(* detector throwing or not.                                                *)
(***************************************************************************)
MaxFaceCalls == 4

MaxTimestamp == 3

Timestamps == 0..MaxTimestamp

\* HTMLMediaElement.readyState: HAVE_METADATA and HAVE_ENOUGH_DATA
ReadyStates == {1, 4}

\* a face result, given by what runDetection extracts from it: the
\* blendshapes and the damped head rotation
FaceFound == [blendshapes |-> Smile, headRotation |-> TiltedHead]

FaceOutcomes == {[throws |-> TRUE, result |-> Null], [throws |-> FALSE, result |-> FaceFound]}

InitFaceHook ==
  /\ IdleResolve
  /\ IdleSmooth
  /\ IdleAvatar
  /\ IdlePose
  /\ IdleEyelids
  /\ IdleSkeleton
  /\ IdleHooks

\* lines 32-46: the detector has been created
LoadFaceLandmarker ==
  /\ ~faceLandmarkerLoaded
  /\ faceLandmarkerLoaded' = TRUE
  /\ UNCHANGED <<lastTimestampRef, faceCall, faceReturned, passedTimestamps, faceCalls,
                 resolveVars, smoothVars, avatarVars, retargetVars,
                 eyeBoneVars, gazeVars, poseHookVars, webcamVars,
                 appVars>>

\* one detectFace call
DetectFace(readyState, timestamp, outcome) ==
  /\ faceCalls < MaxFaceCalls
  /\ faceCall' = [readyState |-> readyState, timestamp |-> timestamp,
                  throws |-> outcome.throws]
  /\ lastTimestampRef' =
       detectFace(lastTimestampRef, faceLandmarkerLoaded, readyState, timestamp,
                  outcome).lastTimestamp
  /\ faceReturned' =
       detectFace(lastTimestampRef, faceLandmarkerLoaded, readyState, timestamp,
                  outcome).returned
  /\ passedTimestamps' =
       passedTimestamps \o
         detectFace(lastTimestampRef, faceLandmarkerLoaded, readyState, timestamp,
                    outcome).passed
  /\ faceCalls' = faceCalls + 1
  /\ UNCHANGED <<faceLandmarkerLoaded, resolveVars, smoothVars, avatarVars,
                 retargetVars, eyeBoneVars, gazeVars, poseHookVars, webcamVars,
                 appVars>>

NextFaceHook ==
  \/ LoadFaceLandmarker
  \/ \E readyState \in ReadyStates, timestamp \in Timestamps, outcome \in FaceOutcomes :
       DetectFace(readyState, timestamp, outcome)

SpecFaceHook == InitFaceHook /\ [][NextFaceHook]_vars

(***************************************************************************)
(* SpecWebcam: the effect of useWebcam.  Every run of the effect is an      *)
(* instance with its own stream variable; getUserMedia resolves or rejects  *)
(* at any later moment, before or after the cleanup of the instance.  The   *)
(* stream an instance acquires is named by the instance's number.           *)
(***************************************************************************)
MaxEffects == 3

\* the MediaStream that getUserMedia hands to instance i
MediaStream(i) == [stream |-> i]

\* lines 25-31 and 62: the effect body up to the await
EffectInstance ==
  [phase |-> IF getUserMediaSupported THEN "pending" ELSE "unsupported",
   stream |-> Null, cleaned |-> FALSE]

\* lines 64-69: the cleanup of the latest instance
CleanedUp(effects) ==
  [effects EXCEPT ![Len(effects)].cleaned = TRUE]

\* line 65-67: the tracks of the instance's stream, if it has one, are stopped
StreamsStoppedByCleanup(effects) ==
  IF effects[Len(effects)].stream = Null THEN {} ELSE {effects[Len(effects)].stream}

InitWebcam ==
  /\ IdleResolve
  /\ IdleSmooth
  /\ IdleAvatar
  /\ IdlePose
  /\ IdleEyelids
  /\ IdleSkeleton
  /\ IdleEyeBones
  /\ IdleGaze
  /\ IdlePoseHook
  /\ IdleFaceHook
  /\ IdleApp
  /\ getUserMediaSupported \in BOOLEAN
  /\ webcamEffects = << EffectInstance >>
  /\ liveStreams = {}
  /\ stoppedStreams = {}
  /\ videoMounted = TRUE
  /\ srcObject = Null
  /\ metadataPending = FALSE
  /\ isReady = FALSE
  /\ webcamError = ~getUserMediaSupported

\* lines 34-54: getUserMedia resolves for instance i
GetUserMediaResolves(i) ==
  /\ webcamEffects[i].phase = "pending"
  /\ webcamEffects' = [webcamEffects EXCEPT ![i].phase = "resolved",
                                          ![i].stream = MediaStream(i)]
  /\ liveStreams' = liveStreams \cup {MediaStream(i)}
  /\ IF videoMounted
     THEN srcObject' = MediaStream(i) /\ metadataPending' = TRUE
     ELSE UNCHANGED <<srcObject, metadataPending>>
  /\ UNCHANGED <<getUserMediaSupported, stoppedStreams, videoMounted, isReady,
                 webcamError, resolveVars, smoothVars, avatarVars, retargetVars,
                 eyeBoneVars, gazeVars, poseHookVars, faceHookVars,
                 appVars>>

\* lines 55-59: getUserMedia rejects for instance i
GetUserMediaRejects(i) ==
  /\ webcamEffects[i].phase = "pending"
  /\ webcamEffects' = [webcamEffects EXCEPT ![i].phase = "rejected"]
  /\ webcamError' = TRUE
  /\ UNCHANGED <<getUserMediaSupported, liveStreams, stoppedStreams, videoMounted,
                 srcObject, metadataPending, isReady, resolveVars, smoothVars,
                 avatarVars, retargetVars, eyeBoneVars, gazeVars, poseHookVars,
                 faceHookVars,
                 appVars>>

\* lines 45-53: the loadedmetadata event of the video element
LoadedMetadata ==
  /\ metadataPending
  /\ metadataPending' = FALSE
  /\ isReady' = IF videoMounted THEN TRUE ELSE isReady
  /\ UNCHANGED <<getUserMediaSupported, webcamEffects, liveStreams, stoppedStreams,
                 videoMounted, srcObject, webcamError, resolveVars, smoothVars,
                 avatarVars, retargetVars, eyeBoneVars, gazeVars, poseHookVars,
                 faceHookVars,
                 appVars>>

\* line 70: width or height changed; the cleanup of the latest instance runs,
\* then the effect again
ChangeSize ==
  /\ videoMounted
  /\ Len(webcamEffects) < MaxEffects
  /\ webcamEffects' = Append(CleanedUp(webcamEffects), EffectInstance)
  /\ liveStreams' = liveStreams \ StreamsStoppedByCleanup(webcamEffects)
  /\ stoppedStreams' = stoppedStreams \cup StreamsStoppedByCleanup(webcamEffects)
  /\ isReady' = FALSE
  /\ webcamError' = (webcamError \/ ~getUserMediaSupported)
  /\ UNCHANGED <<getUserMediaSupported, videoMounted, srcObject, metadataPending,
                 resolveVars, smoothVars, avatarVars, retargetVars, eyeBoneVars,
                 gazeVars, poseHookVars, faceHookVars,
                 appVars>>

\* the component unmounts: the ref is detached and the cleanup of the latest
\* instance runs
Unmount ==
  /\ videoMounted
  /\ videoMounted' = FALSE
  /\ webcamEffects' = CleanedUp(webcamEffects)
  /\ liveStreams' = liveStreams \ StreamsStoppedByCleanup(webcamEffects)
  /\ stoppedStreams' = stoppedStreams \cup StreamsStoppedByCleanup(webcamEffects)
  /\ isReady' = FALSE
  /\ UNCHANGED <<getUserMediaSupported, srcObject, metadataPending, webcamError,
                 resolveVars, smoothVars, avatarVars, retargetVars, eyeBoneVars,
                 gazeVars, poseHookVars, faceHookVars,
                 appVars>>

NextWebcam ==
  \/ \E i \in DOMAIN webcamEffects : GetUserMediaResolves(i)
  \/ \E i \in DOMAIN webcamEffects : GetUserMediaRejects(i)
  \/ LoadedMetadata
  \/ ChangeSize
  \/ Unmount

SpecWebcam == InitWebcam /\ [][NextWebcam]_vars

(***************************************************************************)
(* SpecApp: the detection loop of MemojiApp.  A change of webcamReady, of   *)
(* a landmarker or of bodyTrackingEnabled re-renders the component; the     *)
(* start effect's cleanup and body run at some later moment, and a pending  *)
(* frame callback may run in between with the callback it was given.  The   *)
(* clock read by detectFace advances with every frame, so the handle of the *)
(* next frame serves as performance.now(); the FPS counter is left out.     *)
(***************************************************************************)
MaxHandles == 14
MaxVideoTime == 1

\* a cleanup that cancels nothing
CancelledNothing(pending, handle) == pending

\* lines 108-110: cancelAnimationFrame(animationRef.current), the handle 0
\* standing for null
Cancelled(pending, handle) == {f \in pending : f.handle # handle}

\* line 99: what the runDetection of the current render closes over
RenderedRunDetection ==
  [faceLandmarker |-> faceLandmarkerLoaded, poseLandmarker |-> poseLandmarkerLoaded,
   bodyTrackingEnabled |-> bodyTrackingEnabled]

\* requestAnimationFrame(callback)
Requested(callback) == [handle |-> nextHandle, callback |-> callback]

\* what the pose detector may find in a tick: nothing, or both shoulders
TickPoseOutcomes ==
  {o \in DetectorOutcomes :
     ~o.throws /\ o.result \in {NoPose, PoseOf(ShoulderSeen, ShoulderSeen)}}

\* the video of a running loop has data (HAVE_ENOUGH_DATA)
TickReadyStates == {4}

InitApp ==
  /\ IdleResolve
  /\ IdleSmooth
  /\ IdlePose
  /\ IdleEyelids
  /\ IdleSkeleton
  /\ IdleEyeBones
  /\ IdleGaze
  /\ IdlePoseHook
  /\ IdleFaceHook
  /\ gltf = <<>>
  /\ avatarKey = "avatar"
  /\ blendshapes = NoBlendshapes
  /\ headRotation = InitialHeadRotation
  /\ poseData = Null
  /\ meshRef = Null
  /\ blendshapeMappingRef = <<>>
  /\ morphTargetMeshRef = Null
  /\ leftEyeBoneRef = Null
  /\ rightEyeBoneRef = Null
  /\ eyelidBonesRef = Null
  /\ bodyBonesRef = Null
  /\ lastAvatarRef = ""
  /\ effectPending = FALSE
  /\ sceneInfluences = <<>>
  /\ rotation = <<>>
  /\ lastStep = Null
  /\ frames = 0
  /\ swaps = 0
  /\ renders = 0
  /\ getUserMediaSupported = TRUE
  /\ webcamEffects = << >>
  /\ liveStreams = {}
  /\ stoppedStreams = {}
  /\ videoMounted = TRUE
  /\ srcObject = Null
  /\ metadataPending = FALSE
  /\ isReady = FALSE
  /\ webcamError = FALSE
  /\ bodyTrackingEnabled = FALSE
  /\ faceResult = Null
  /\ poseResult = Null
  /\ runDetection = [faceLandmarker |-> FALSE, poseLandmarker |-> FALSE,
                     bodyTrackingEnabled |-> FALSE]
  /\ startEffectDue = TRUE
  /\ animationRef = 0
  /\ pendingFrames = {}
  /\ nextHandle = 1

\* what a re-render without a tick leaves alone
RenderUnchanged ==
  UNCHANGED <<faceResult, poseResult, runDetection, animationRef, pendingFrames,
              nextHandle, resolveVars, smoothVars, avatarVars, retargetVars,
              eyeBoneVars, gazeVars, validPoses, videoTime, poseRefs, poseReturned,
              hookCalls, missesSinceValid, lastTimestampRef, faceCall, faceReturned,
              passedTimestamps, faceCalls, getUserMediaSupported, webcamEffects,
              liveStreams, stoppedStreams, videoMounted, srcObject, metadataPending,
              webcamError>>

\* useWebcam sets isReady (useWebcam.ts lines 51 and 68)
WebcamReadyChanges ==
  /\ isReady' = ~isReady
  /\ startEffectDue' = TRUE
  /\ UNCHANGED <<bodyTrackingEnabled, faceLandmarkerLoaded, poseLandmarkerLoaded>>
  /\ RenderUnchanged

\* useFaceLandmarker sets faceLandmarker
FaceLandmarkerLoads ==
  /\ ~faceLandmarkerLoaded
  /\ faceLandmarkerLoaded' = TRUE
  /\ startEffectDue' = TRUE
  /\ UNCHANGED <<bodyTrackingEnabled, isReady, poseLandmarkerLoaded>>
  /\ RenderUnchanged

\* usePoseLandmarker sets poseLandmarker
PoseLandmarkerLoads ==
  /\ ~poseLandmarkerLoaded
  /\ poseLandmarkerLoaded' = TRUE
  /\ startEffectDue' = TRUE
  /\ UNCHANGED <<bodyTrackingEnabled, isReady, faceLandmarkerLoaded>>
  /\ RenderUnchanged

\* line 140: the body-tracking button
ToggleBodyTracking ==
  /\ bodyTrackingEnabled' = ~bodyTrackingEnabled
  /\ startEffectDue' = TRUE
  /\ UNCHANGED <<isReady, faceLandmarkerLoaded, poseLandmarkerLoaded>>
  /\ RenderUnchanged

\* lines 102-112: the cleanup of the previous run of the start effect, then
\* its body with the runDetection of the committed render
StartEffect ==
  /\ startEffectDue
  /\ (isReady /\ faceLandmarkerLoaded) => nextHandle <= MaxHandles
  /\ startEffectDue' = FALSE
  /\ runDetection' = RenderedRunDetection
  /\ IF isReady /\ faceLandmarkerLoaded
     THEN /\ pendingFrames' =
               Cancelled(pendingFrames, animationRef)
                 \cup {Requested(RenderedRunDetection)}
          /\ animationRef' = nextHandle
          /\ nextHandle' = nextHandle + 1
     ELSE /\ pendingFrames' = Cancelled(pendingFrames, animationRef)
          /\ UNCHANGED <<animationRef, nextHandle>>
  /\ UNCHANGED <<bodyTrackingEnabled, faceResult, poseResult, isReady,
                 faceLandmarkerLoaded, poseLandmarkerLoaded, resolveVars, smoothVars,
                 avatarVars, retargetVars, eyeBoneVars, gazeVars, validPoses, videoTime,
                 poseRefs, poseReturned, hookCalls, missesSinceValid, lastTimestampRef,
                 faceCall, faceReturned, passedTimestamps, faceCalls,
                 getUserMediaSupported, webcamEffects, liveStreams, stoppedStreams,
                 videoMounted, srcObject, metadataPending, webcamError>>

\* lines 47-73: the face branch of runDetection
TickFace(callback, readyState, faceOutcome) ==
  /\ lastTimestampRef' =
       detectFace(lastTimestampRef, callback.faceLandmarker, readyState,
                  nextHandle, faceOutcome).lastTimestamp
  /\ faceReturned' =
       detectFace(lastTimestampRef, callback.faceLandmarker, readyState,
                  nextHandle, faceOutcome).returned
  /\ faceResult' = faceReturned'
  /\ IF faceReturned' # Null
     THEN /\ blendshapes' = faceReturned'.blendshapes
          /\ headRotation' = faceReturned'.headRotation
     ELSE UNCHANGED <<blendshapes, headRotation>>

\* setPoseData called with whatever detectPose returned
PoseDataAlwaysSet(current, poseRes) ==
  IF poseRes # Null THEN extractPoseData(poseRes) ELSE Null

\* lines 79-82: the pose state after detectPose returned poseRes
PoseDataAfter(current, poseRes) ==
  IF poseRes # Null THEN extractPoseData(poseRes) ELSE current

\* lines 75-85: the pose branch of runDetection
TickPose(callback, time, poseOutcome) ==
  IF callback.bodyTrackingEnabled /\ callback.poseLandmarker
  THEN /\ ValidCall(time, poseOutcome) => validPoses < MaxValidPoses
       /\ validPoses' = IF ValidCall(time, poseOutcome) THEN validPoses + 1
                        ELSE validPoses
       /\ poseRefs' = detectPose(poseRefs, callback.poseLandmarker, time, poseOutcome).refs
       /\ poseReturned' =
            detectPose(poseRefs, callback.poseLandmarker, time, poseOutcome).returned
       /\ poseResult' = poseReturned'
       /\ poseData' = PoseDataAfter(poseData, poseReturned')
  ELSE /\ poseResult' = Null
       /\ UNCHANGED <<validPoses, poseRefs, poseReturned, poseData>>

\* lines 40-99: the pending callback f runs
Tick(f, readyState, faceOutcome, elapsed, poseOutcome) ==
  /\ f \in pendingFrames
  /\ nextHandle <= MaxHandles
  /\ videoTime + elapsed <= MaxVideoTime
  /\ videoTime' = videoTime + elapsed
  /\ IF ~videoMounted \/ ~f.callback.faceLandmarker
     THEN UNCHANGED <<lastTimestampRef, faceReturned, faceResult, blendshapes,
                      headRotation, poseResult, validPoses, poseRefs, poseReturned,
                      poseData>>
     ELSE /\ TickFace(f.callback, readyState, faceOutcome)
          /\ TickPose(f.callback, videoTime + elapsed, poseOutcome)
  /\ pendingFrames' = (pendingFrames \ {f}) \cup {Requested(f.callback)}
  /\ animationRef' = nextHandle
  /\ nextHandle' = nextHandle + 1
  /\ UNCHANGED <<bodyTrackingEnabled, runDetection, startEffectDue, isReady,
                 faceLandmarkerLoaded, poseLandmarkerLoaded, resolveVars, smoothVars,
                 gltf, avatarKey, meshRef, refVars, effectPending, sceneInfluences,
                 rotation, lastStep, frames, swaps, renders, retargetVars,
                 eyeBoneVars, gazeVars, hookCalls, missesSinceValid, faceCall,
                 passedTimestamps, faceCalls, getUserMediaSupported, webcamEffects,
                 liveStreams, stoppedStreams, videoMounted, srcObject, metadataPending,
                 webcamError>>

NextApp ==
  \/ WebcamReadyChanges
  \/ FaceLandmarkerLoads
  \/ PoseLandmarkerLoads
  \/ ToggleBodyTracking
  \/ StartEffect
  \/ \E f \in pendingFrames, readyState \in TickReadyStates, faceOutcome \in FaceOutcomes,
        elapsed \in {0, 1}, poseOutcome \in TickPoseOutcomes :
       Tick(f, readyState, faceOutcome, elapsed, poseOutcome)

SpecApp == InitApp /\ [][NextApp]_vars

(***************************************************************************)
(* Claims about createBlendshapeMapping.                                    *)
(***************************************************************************)
BoundTo(channel, name) ==
  /\ Has(mapping, channel)
  /\ Get(mapping, channel) = Get(dictionary.entries, name)

\* C1: a catalog holding a channel's canonical identifier and one of its
\* other aliases binds the channel to the slot of the canonical identifier.
C1_CanonicalBeatsAlias ==
  (resolved /\ dictionary.present) =>
    \A e \in DOMAIN BLENDSHAPE_ALIASES :
      LET channel == BLENDSHAPE_ALIASES[e].name
          aliases == BLENDSHAPE_ALIASES[e].aliases
      IN  ( /\ Has(dictionary.entries, channel)
            /\ \E a \in DOMAIN aliases :
                 aliases[a] # channel /\ Has(dictionary.entries, aliases[a]) )
          => BoundTo(channel, channel)

\* C4: each of the 52 canonical channels whose identifier is a catalog name
\* is bound to the slot of that name.
C4_EveryCanonicalNameBinds ==
  (resolved /\ dictionary.present) =>
    \A channel \in Channels :
      Has(dictionary.entries, channel) => BoundTo(channel, channel)

KeysOf(obj) == {obj[i].key : i \in DOMAIN obj}

ExactlyNumeric52 ==
  /\ dictionary.present
  /\ KeysOf(dictionary.entries) = {NumberToString(i) : i \in 0..51}

\* C5: for a catalog whose names are exactly "0".."51", channel i of the
\* canonical order is bound to the slot registered under "i", for all 52 i,
\* and nothing else is bound (no alias matching took place).
C5_NumericCatalogBindsByIndex ==
  (resolved /\ ExactlyNumeric52) =>
    /\ \A i \in 0..51 : BoundTo(ARKIT_BLENDSHAPE_ORDER[i + 1], NumberToString(i))
    /\ Len(mapping) = 52

C5_Witness ==
  /\ resolved
  /\ ExactlyNumeric52
  /\ Len(mapping) = 52
  /\ BoundTo("tongueOut", "51")

\* the catalog's names are the consecutive integers "0".."n-1", n >= 50
ConsecutiveIntegerNames(names) ==
  /\ Len(names) >= 50
  /\ {names[i] : i \in DOMAIN names} = {NumberToString(i) : i \in 0..(Len(names) - 1)}

\* C6: the numeric fallback is taken exactly when the catalog's names are
\* consecutive small integers covering at least 50 slots; every other
\* catalog is resolved by name.
C6_NumericExactlyWhenAllIntegers ==
  (resolved /\ dictionary.present) =>
    mapping = IF LET names == ObjectKeys(dictionary.entries)
                 IN  ConsecutiveIntegerNames(names)
              THEN NumericMapping(dictionary.entries)
              ELSE NameBasedMapping(dictionary.entries)

NoAliasMatch(channel) ==
  LET availableTargets == ObjectKeys(dictionary.entries)
      availableTargetsLower ==
        Array([i \in DOMAIN availableTargets |-> toLowerCase(availableTargets[i])])
      e == CHOOSE x \in DOMAIN BLENDSHAPE_ALIASES : BLENDSHAPE_ALIASES[x].name = channel
  IN  /\ ~Has(dictionary.entries, channel)
      /\ AliasMatch(dictionary.entries, availableTargets, availableTargetsLower, e, 1) = <<>>

\* C7: a catalog with no alias match for a blink channel but with a name
\* meeting the substring heuristic still yields a binding for that channel.
C7_FuzzyAlwaysBindsBlink ==
  (resolved /\ dictionary.present) =>
    /\ ( /\ NoAliasMatch("eyeBlinkLeft")
         /\ \E i \in DOMAIN dictionary.entries :
              FuzzyBlink(dictionary.entries[i].key, "left", "_l", "l") )
       => Has(mapping, "eyeBlinkLeft")
    /\ ( /\ NoAliasMatch("eyeBlinkRight")
         /\ \E i \in DOMAIN dictionary.entries :
              FuzzyBlink(dictionary.entries[i].key, "right", "_r", "r") )
       => Has(mapping, "eyeBlinkRight")


(***************************************************************************)
(* Claims about applyBlendshapes.                                           *)
(***************************************************************************)
\* the amplitude the constant frame carries for the channel, 0 when absent
Target(channel) ==
  IF channel \in DOMAIN blendshapeData THEN blendshapeData[channel] ELSE Zero

RECURSIVE Pow(_, _)
Pow(a, k) == IF k = 0 THEN One ELSE Times(a, Pow(a, k - 1))

Sign(a) == IF a.n > 0 THEN 1 ELSE IF a.n < 0 THEN -1 ELSE 0

Half == Ratio(1, 2)

\* entry e of the binding is driven from 0 toward 1 at base factor 0.5
UnitStepAtHalf(e) ==
  /\ smoothingFactor = Half
  /\ startInfluences[blendshapeMapping[e].value] = Zero
  /\ Target(blendshapeMapping[e].key) = One
  /\ calls \in 1..10

\* the closed form 1 - (1 - f)^k
ClosedForm(f, k) == Minus(One, Pow(Minus(One, f), k))

\* C8 (as stated): for any bound channel whose slot starts at 0, with
\* constant amplitude 1 and factor 0.5, the slot after k calls, k in 1..10,
\* is 1 - (1 - 0.5)^k.
C8_ClosedFormAnyChannel ==
  \A e \in DOMAIN blendshapeMapping :
    UnitStepAtHalf(e) =>
      morphTargetInfluences[blendshapeMapping[e].value] = ClosedForm(Half, calls)

\* C8 (amended): the same, for a bound channel outside the fast-response
\* category.
C8_ClosedFormDefaultChannel ==
  \A e \in DOMAIN blendshapeMapping :
    (UnitStepAtHalf(e) /\ blendshapeMapping[e].key \notin FAST_RESPONSE_BLENDSHAPES) =>
      morphTargetInfluences[blendshapeMapping[e].value] = ClosedForm(Half, calls)

C8_Witness ==
  /\ calls = 10
  /\ \E e \in DOMAIN blendshapeMapping :
       /\ UnitStepAtHalf(e)
       /\ blendshapeMapping[e].key \notin FAST_RESPONSE_BLENDSHAPES
       /\ morphTargetInfluences[blendshapeMapping[e].value] = Ratio(1023, 1024)

\* target minus slot value, for entry e, before the step
Remaining(e) ==
  Minus(Target(blendshapeMapping[e].key),
        morphTargetInfluences[blendshapeMapping[e].value])

\* target minus slot value, for entry e, after the step
RemainingAfter(e) ==
  Minus(Target(blendshapeMapping[e].key),
        morphTargetInfluences'[blendshapeMapping[e].value])

NoOvershoot(e) == Sign(Remaining(e)) * Sign(RemainingAfter(e)) >= 0

Tolerance == Ratio(1, 100)

\* the slot bound to the channel is within 0.01 of the channel's target
Within(channel) ==
  Less(AbsR(Minus(Target(channel),
                  morphTargetInfluences[Get(blendshapeMapping, channel)])),
       Tolerance)

\* the same, after the step
WithinAfter(channel) ==
  Less(AbsR(Minus(Target(channel),
                  morphTargetInfluences'[Get(blendshapeMapping, channel)])),
       Tolerance)

\* eyeBlinkLeft and mouthSmileLeft are bound to slots with the same start
\* value and are driven to the same target
SameRun ==
  /\ Has(blendshapeMapping, "eyeBlinkLeft")
  /\ Has(blendshapeMapping, "mouthSmileLeft")
  /\ Target("eyeBlinkLeft") = Target("mouthSmileLeft")
  /\ startInfluences[Get(blendshapeMapping, "eyeBlinkLeft")] =
       startInfluences[Get(blendshapeMapping, "mouthSmileLeft")]

\* start and target are at least 0.5 apart
FarApart ==
  ~Less(AbsR(Minus(Target("mouthSmileLeft"),
                   startInfluences[Get(blendshapeMapping, "mouthSmileLeft")])),
        Half)

C2_BindingsFromNewRigOnly ==
  ~effectPending =>
    LET scene == Scene(avatarKey)
        mesh == FoundMesh(scene)
        eyeBones == findEyeBones(scene)
    IN  /\ morphTargetMeshRef = mesh
        /\ blendshapeMappingRef =
             IF mesh = Null THEN <<>> ELSE createBlendshapeMapping(DictionaryOf(mesh))
        /\ leftEyeBoneRef = eyeBones.leftEye
        /\ rightEyeBoneRef = eyeBones.rightEye
        /\ eyelidBonesRef = findEyelidBones(scene)
        /\ bodyBonesRef = findBodyBones(scene)
        /\ lastStep.kind = "frame" =>
             \A c \in lastStep.retargeted : c.object.scene = avatarKey

\* C3: a frame callback that runs after the displayed rig has changed and
\* before the rig-load effect has rebuilt the bindings makes no retargeting
\* call.
C3_NoRetargetingWhileRigLoadPending ==
  (lastStep.kind = "frame" /\ lastStep.pending) => lastStep.retargeted = {}


(***************************************************************************)
(* Claims about extractPoseData and applyPoseToBones, checked in SpecPose.  *)
(***************************************************************************)
Called == poseCalls > 0

\* C11: applyPoseToBones changes no rotation component of any bone when the
\* pose data lacks the left shoulder, the right shoulder, or both, whatever
\* the other landmarks and the bone bindings are.
C11_NoShoulderNoChange ==
  (Called /\ (pose.leftShoulder = Null \/ pose.rightShoulder = Null)) =>
    boneRotation = previousRotation

\* a call without the left shoulder on an arm that would otherwise move
C11_Witness ==
  /\ Called
  /\ pose.leftShoulder = Null
  /\ pose.rightShoulder # Null
  /\ pose.rightElbow # Null
  /\ bodyBones.rightArm # Null
  /\ pose.rightElbow.y # pose.rightShoulder.y
  /\ boneRotation = previousRotation

\* landmark index of the detector's array, mirrored, when it is filled
MirroredLandmark(index) ==
  IF index \in DOMAIN result.landmarks[1]
  THEN Vector3(Minus(One, result.landmarks[1][index].x), result.landmarks[1][index].y,
               result.landmarks[1][index].z)
  ELSE Null

\* C12: pose extraction swaps the left/right labels in addition to mirroring
\* x: the avatar's left shoulder, elbow and wrist are the detector's
\* right-labelled landmarks with x replaced by 1 - x, and the right ones the
\* left-labelled landmarks.
C12_LabelsSwappedAndMirrored ==
  (extracted /\ pose # Null) =>
    /\ pose.leftShoulder = MirroredLandmark(POSE_LANDMARKS.RIGHT_SHOULDER)
    /\ pose.leftElbow = MirroredLandmark(POSE_LANDMARKS.RIGHT_ELBOW)
    /\ pose.leftWrist = MirroredLandmark(POSE_LANDMARKS.RIGHT_WRIST)
    /\ pose.rightShoulder = MirroredLandmark(POSE_LANDMARKS.LEFT_SHOULDER)
    /\ pose.rightElbow = MirroredLandmark(POSE_LANDMARKS.LEFT_ELBOW)
    /\ pose.rightWrist = MirroredLandmark(POSE_LANDMARKS.LEFT_WRIST)

\* a landmark with its horizontal coordinate negated
NegateX(v) == IF v = Null THEN Null ELSE Vector3(Neg(v.x), v.y, v.z)

\* the pose with the left/right labels swapped and every x negated
MirrorPose(p) ==
  [ leftShoulder |-> NegateX(p.rightShoulder), rightShoulder |-> NegateX(p.leftShoulder),
    leftElbow |-> NegateX(p.rightElbow), rightElbow |-> NegateX(p.leftElbow),
    leftWrist |-> NegateX(p.rightWrist), rightWrist |-> NegateX(p.leftWrist),
    leftHip |-> NegateX(p.rightHip), rightHip |-> NegateX(p.leftHip) ]

\* what the last call would have left had it been handed the mirrored pose
MirroredRotation == applyPoseToBones(previousRotation, MirrorPose(pose), bodyBones, poseFactor)

\* the first call on a rig with both arms: every bone starts from the same
\* rotation
FirstCallBothArms ==
  /\ poseCalls = 1
  /\ bodyBones.leftArm # Null /\ bodyBones.rightArm # Null
  /\ bodyBones.leftForeArm # Null /\ bodyBones.rightForeArm # Null

UpperArmsMirrored ==
  /\ MirroredRotation[bodyBones.leftArm] = boneRotation[bodyBones.rightArm]
  /\ MirroredRotation[bodyBones.rightArm] = boneRotation[bodyBones.leftArm]

\* C13 as stated: with the labels swapped and every x negated,
\* applyPoseToBones, from the same starting rotations and with the same
\* factor, produces for each arm exactly the upper-arm and forearm
\* rotations the original input produced for the opposite arm.
C13_MirroredEqualsOppositeArm ==
  FirstCallBothArms =>
    /\ UpperArmsMirrored
    /\ MirroredRotation[bodyBones.leftForeArm] = boneRotation[bodyBones.rightForeArm]
    /\ MirroredRotation[bodyBones.rightForeArm] = boneRotation[bodyBones.leftForeArm]

\* what the smoothing keeps of a forearm's starting bend: all of it when a
\* landmark of the arm is missing, the share 1 - factor otherwise
Kept(bone, shoulder, elbow, wrist) ==
  IF shoulder = Null \/ elbow = Null \/ wrist = Null
     \/ pose.leftShoulder = Null \/ pose.rightShoulder = Null
  THEN previousRotation[bone].y
  ELSE RealTimes(previousRotation[bone].y, Minus(One, poseFactor))

\* the forearm of the mirrored call carries the bend the frame gave the
\* opposite forearm with the opposite sign
ForeArmsOpposite(mine, other, shoulder, elbow, wrist) ==
  /\ MirroredRotation[mine].x = boneRotation[other].x
  /\ MirroredRotation[mine].z = boneRotation[other].z
  /\ RealMinus(MirroredRotation[mine].y, Kept(other, shoulder, elbow, wrist)) =
       RealNeg(RealMinus(boneRotation[other].y, Kept(other, shoulder, elbow, wrist)))

\* C13 as amended: the upper-arm rotations are exactly those of the opposite
\* arm; the forearm bend the frame contributes is that of the opposite arm
\* with the opposite sign.
C13_MirroredUpToForeArmSign ==
  FirstCallBothArms =>
    /\ UpperArmsMirrored
    /\ ForeArmsOpposite(bodyBones.leftForeArm, bodyBones.rightForeArm,
                        pose.rightShoulder, pose.rightElbow, pose.rightWrist)
    /\ ForeArmsOpposite(bodyBones.rightForeArm, bodyBones.leftForeArm,
                        pose.leftShoulder, pose.leftElbow, pose.leftWrist)

\* a first call that bent the right forearm and raised an upper arm
C13_Witness ==
  /\ FirstCallBothArms
  /\ boneRotation[bodyBones.rightForeArm].y.p.n < 0
  /\ boneRotation[bodyBones.leftArm].x.p.n # 0

\* the rotation of a bone was left as it was by the last call
Held(bone) == boneRotation[bone] = previousRotation[bone]

\* an upper arm was updated: its y and z went toward 0 by the factor
UpperArmUpdated(bone) ==
  /\ boneRotation[bone].y = RealTimes(previousRotation[bone].y, Minus(One, poseFactor))
  /\ boneRotation[bone].z = RealTimes(previousRotation[bone].z, Minus(One, poseFactor))

\* a forearm was updated: the bend targets are multiples of pi, so the
\* rational part of its y went toward 0 by the factor
ForeArmUpdated(bone) ==
  boneRotation[bone].y.q = Times(previousRotation[bone].y.q, Minus(One, poseFactor))

ArmHeldOrUpdated(arm, foreArm, elbow, wrist) ==
  /\ arm # Null => IF elbow = Null THEN Held(arm) ELSE UpperArmUpdated(arm)
  /\ foreArm # Null =>
       IF elbow = Null \/ wrist = Null THEN Held(foreArm) ELSE ForeArmUpdated(foreArm)

\* C14: with both shoulders present, a bone whose arm lacks a landmark it
\* needs (the elbow for the upper arm; the elbow or the wrist for the
\* forearm) keeps exactly its previous rotation, and the bones whose
\* landmarks are all present are still updated.
C14_MissingLandmarkHoldsBone ==
  (Called /\ pose.leftShoulder # Null /\ pose.rightShoulder # Null) =>
    /\ ArmHeldOrUpdated(bodyBones.leftArm, bodyBones.leftForeArm,
                        pose.leftElbow, pose.leftWrist)
    /\ ArmHeldOrUpdated(bodyBones.rightArm, bodyBones.rightForeArm,
                        pose.rightElbow, pose.rightWrist)

\* the left elbow is missing and the left upper arm is away from rest, while
\* the right arm is seen and moves
C14_Witness ==
  /\ Called
  /\ pose.leftShoulder # Null /\ pose.rightShoulder # Null
  /\ pose.leftElbow = Null /\ pose.rightElbow # Null /\ pose.rightWrist # Null
  /\ bodyBones.leftArm # Null /\ bodyBones.rightArm # Null
  /\ previousRotation[bodyBones.leftArm].x # RealZero
  /\ boneRotation[bodyBones.rightArm] # previousRotation[bodyBones.rightArm]


(***************************************************************************)
(* Claims about applyEyelidBlink, checked in SpecEyelids and Spec.          *)
(***************************************************************************)
UpperFixedPoint == FromRatio(Ratio(2, 5))

LowerFixedPoint == FromRatio(Ratio(-3, 25))

\* the distance of a bound eyelid bone from a rotation shrank by the share
\* 1 - factor in the last call, so that rotation is the only one a call
\* leaves in place and the one the calls converge to
ConvergesTo(bone, fixedPoint) ==
  bone # Null =>
    RealMinus(lidRotation[bone].x, fixedPoint) =
      RealTimes(RealMinus(previousLidRotation[bone].x, fixedPoint), Minus(One, lidFactor))

\* C15: with the blink amplitude held at 1.0, applyEyelidBlink converges to
\* an upper eyelid rotation of 0.4 and a lower eyelid rotation of -0.12, of
\* opposite sign and 0.3 times the upper in magnitude, for both eyes.
C15_FixedPointUpperBeyondLower ==
  lidCalls > 0 =>
    /\ eyelidState.left = One =>
         /\ ConvergesTo(eyelidBones.leftUpper, UpperFixedPoint)
         /\ ConvergesTo(eyelidBones.leftLower, LowerFixedPoint)
    /\ eyelidState.right = One =>
         /\ ConvergesTo(eyelidBones.rightUpper, UpperFixedPoint)
         /\ ConvergesTo(eyelidBones.rightLower, LowerFixedPoint)
    /\ LowerFixedPoint = RealTimes(RealNeg(UpperFixedPoint), Ratio(3, 10))
    /\ Less(AbsR(LowerFixedPoint.q), AbsR(UpperFixedPoint.q))

\* both left eyelids have arrived at the fixed point from elsewhere
C15_Witness ==
  /\ lidCalls > 0
  /\ eyelidState.left = One
  /\ eyelidBones.leftUpper # Null /\ eyelidBones.leftLower # Null
  /\ lidRotation[eyelidBones.leftUpper].x = UpperFixedPoint
  /\ lidRotation[eyelidBones.leftLower].x = LowerFixedPoint
  /\ previousLidRotation[eyelidBones.leftUpper].x # UpperFixedPoint
  /\ previousLidRotation[eyelidBones.leftLower].x # LowerFixedPoint

\* the frame callback took an eyelid bone of the displayed rig toward target
DrivenToward(bone, target) ==
  bone # Null => rotation'[bone].x = lerp(rotation[bone].x, target, Ratio(7, 10))

\* C16: every eyelid bone the rig has is driven toward its blink target on
\* every frame, whichever of the other three eyelid bones are missing.
C16_EveryEyelidBoneDriven ==
  [][(Frame /\ ~effectPending) =>
       /\ DrivenToward(eyelidBonesRef.leftUpper,
                       FromRatio(Times(OrZero(blendshapes, "eyeBlinkLeft"), Ratio(2, 5))))
       /\ DrivenToward(eyelidBonesRef.leftLower,
                       FromRatio(Times(OrZero(blendshapes, "eyeBlinkLeft"), Ratio(-3, 25))))
       /\ DrivenToward(eyelidBonesRef.rightUpper,
                       FromRatio(Times(OrZero(blendshapes, "eyeBlinkRight"), Ratio(2, 5))))
       /\ DrivenToward(eyelidBonesRef.rightLower,
                       FromRatio(Times(OrZero(blendshapes, "eyeBlinkRight"), Ratio(-3, 25))))]_vars


(***************************************************************************)
(* Claims about absent channels and unbound slots, checked in SpecSmooth.   *)
(***************************************************************************)
\* the entries of the binding whose channel the frame lacks
AbsentEntries ==
  {e \in DOMAIN blendshapeMapping : blendshapeMapping[e].key \notin DOMAIN blendshapeData}

\* the slot of entry e went toward 0 by the effective factor of its channel,
\* coming no farther from 0 and staying on its side of it
DecayedTowardZero(e) ==
  LET slot == blendshapeMapping[e].value
      share == Minus(One, effectiveSmoothing(blendshapeMapping[e].key, smoothingFactor))
  IN  /\ morphTargetInfluences'[slot] = Times(morphTargetInfluences[slot], share)
      /\ ~Less(AbsR(morphTargetInfluences[slot]), AbsR(morphTargetInfluences'[slot]))
      /\ morphTargetInfluences[slot] # Zero =>
           Less(AbsR(morphTargetInfluences'[slot]), AbsR(morphTargetInfluences[slot]))
      /\ Sign(morphTargetInfluences[slot]) * Sign(morphTargetInfluences'[slot]) >= 0

BoundSlots == {blendshapeMapping[e].value : e \in DOMAIN blendshapeMapping}

\* C18: applyBlendshapes writes only slots that are values of the binding:
\* every slot bound to no channel is left unchanged by every call, whatever
\* the frame carries, and an empty binding makes the call a no-op.
C18_UnboundSlotsUntouched ==
  [][calls' = calls + 1 =>
       /\ DOMAIN morphTargetInfluences' = DOMAIN morphTargetInfluences
       /\ \A i \in DOMAIN morphTargetInfluences \ BoundSlots :
            morphTargetInfluences'[i] = morphTargetInfluences[i]
       /\ blendshapeMapping = <<>> => morphTargetInfluences' = morphTargetInfluences]_vars

\* a frame with an amplitude for an unbound channel has moved the bound slot
\* and left the unbound slot at its start value
C18_Witness ==
  /\ calls > 0
  /\ DOMAIN morphTargetInfluences = {0, 1}
  /\ BoundSlots = {1}
  /\ "eyeBlinkLeft" \in DOMAIN blendshapeData
  /\ blendshapeData["eyeBlinkLeft"] = One
  /\ morphTargetInfluences[0] = Zero
  /\ startInfluences[0] = Zero
  /\ morphTargetInfluences[1] # startInfluences[1]


(***************************************************************************)
(* Claims about findBodyBones, checked in SpecSkeleton.                     *)
(***************************************************************************)
\* the places, in traversal order, of the bones whose name contains one of
\* the joint's patterns, letter case aside
MatchingBones(joint) ==
  {i \in DOMAIN skeleton.nodes :
     /\ skeleton.nodes[i].kind = "Bone"
     /\ \E k \in DOMAIN BONE_PATTERNS[joint] :
          includes(toLowerCase(skeleton.nodes[i].name), toLowerCase(BONE_PATTERNS[joint][k]))}

\* C19: findBodyBones binds each body joint to the first bone, in scene
\* traversal order, whose name contains one of the joint's patterns as a
\* case-insensitive substring, and leaves the joint null when no bone name
\* matches any pattern.
C19_FirstMatchingBonePerJoint ==
  searched =>
    \A joint \in DOMAIN BONE_PATTERNS :
      IF MatchingBones(joint) = {}
      THEN foundBodyBones[joint] = Null
      ELSE /\ foundBodyBones[joint] # Null
           /\ foundBodyBones[joint].scene = skeleton.key
           /\ foundBodyBones[joint].node \in MatchingBones(joint)
           /\ \A i \in MatchingBones(joint) : foundBodyBones[joint].node <= i

\* a group with a bone's name comes first, two bones match the left upper
\* arm and no bone matches the hips
C19_Witness ==
  /\ searched
  /\ Len(skeleton.nodes) = 3
  /\ skeleton.nodes[1] = Group("LeftArm")
  /\ skeleton.nodes[2] = Bone("forearm_L")
  /\ skeleton.nodes[3] = Bone("mixamorigLEFTARM")
  /\ foundBodyBones.leftArm = Object(skeleton.key, 2)
  /\ foundBodyBones.leftForeArm = Object(skeleton.key, 2)
  /\ foundBodyBones.hips = Null


(***************************************************************************)
(* The order of the alias tiers, checked in SpecResolve.                    *)
(***************************************************************************)
\* the slots of the aliases of entry e that the catalog holds in their exact
\* spelling
ExactAliasSlots(e) ==
  { Get(dictionary.entries, BLENDSHAPE_ALIASES[e].aliases[a]) :
      a \in {b \in DOMAIN BLENDSHAPE_ALIASES[e].aliases :
               Has(dictionary.entries, BLENDSHAPE_ALIASES[e].aliases[b])} }

\* C20: in name-based resolution an exactly-spelled alias present in the
\* catalog is preferred over any merely case-insensitive alias match: a
\* channel whose canonical name is absent and one of whose aliases occurs in
\* the catalog in its exact spelling is bound to the slot of such an alias.
C20_ExactAliasBeatsCaseInsensitive ==
  (resolved /\ dictionary.present /\ ~hasNumericNames(ObjectKeys(dictionary.entries))) =>
    \A e \in DOMAIN BLENDSHAPE_ALIASES :
      (~Has(dictionary.entries, BLENDSHAPE_ALIASES[e].name) /\ ExactAliasSlots(e) # {}) =>
        /\ Has(mapping, BLENDSHAPE_ALIASES[e].name)
        /\ Get(mapping, BLENDSHAPE_ALIASES[e].name) \in ExactAliasSlots(e)


(***************************************************************************)
(* Claims about applyBlendshapes over a sequence of frames.                 *)
(***************************************************************************)
Reverse(s) == [i \in DOMAIN s |-> s[Len(s) + 1 - i]]

\* no two entries of the binding hold the same slot
DisjointSlots ==
  \A i, j \in DOMAIN blendshapeMapping :
    i # j => blendshapeMapping[i].value # blendshapeMapping[j].value

\* C21: the writes of one applyBlendshapes call go to pairwise disjoint
\* slots, and the morph state the call leaves is the one it leaves when
\* the bound channels are processed in the opposite order.
C21_DisjointSlotsAnyOrder ==
  [][ calls' = calls + 1 =>
        /\ DisjointSlots
        /\ morphTargetInfluences' =
             applyBlendshapes(blendshapeData', morphTargetInfluences,
                              Reverse(blendshapeMapping), smoothingFactor) ]_vars

InUnitRange(v) == ~Less(v, Zero) /\ ~Less(One, v)

\* C26: slots that start in [0,1], driven by amplitudes in [0,1] with a
\* base factor in (0,1], stay in [0,1] after any sequence of calls, also
\* when two channels share a slot.
C26_SlotsStayInUnitRange ==
  \A i \in DOMAIN morphTargetInfluences : InUnitRange(morphTargetInfluences[i])

C26_Witness ==
  /\ calls = 3
  /\ ~DisjointSlots
  /\ smoothingFactor = Ratio(1, 2)
  /\ \E i \in DOMAIN morphTargetInfluences :
       /\ Less(Zero, morphTargetInfluences[i])
       /\ Less(morphTargetInfluences[i], One)


(***************************************************************************)
(* Claims about findEyeBones and findEyelidBones.                           *)
(***************************************************************************)
\* the bones whose name contains one of the patterns, whatever the case
PatternBones(patterns) ==
  {i \in Bones(skeleton) :
     \E k \in DOMAIN patterns :
       includes(toLowerCase(skeleton.nodes[i].name), toLowerCase(patterns[k]))}

\* C22: each eye and eyelid joint is bound to the first bone of the
\* traversal whose name contains one of the joint's patterns as a
\* case-insensitive substring, and to none when there is no such bone.
C22_EyeJointsCaseInsensitiveSubstring ==
  searched =>
    /\ \A joint \in DOMAIN EYE_BONE_NAMES :
         foundEyeBones[joint] = FirstBone(skeleton, PatternBones(EYE_BONE_NAMES[joint]))
    /\ \A joint \in DOMAIN EYELID_BONE_NAMES :
         foundEyelidBones[joint] =
           FirstBone(skeleton, PatternBones(EYELID_BONE_NAMES[joint]))

\* C27: no bone is bound both to an eye joint and to an eyelid joint.
C27_EyeAndEyelidBonesDistinct ==
  searched =>
    \A eye \in DOMAIN EYE_BONE_NAMES, lid \in DOMAIN EYELID_BONE_NAMES :
      foundEyeBones[eye] # Null => foundEyeBones[eye] # foundEyelidBones[lid]


(***************************************************************************)
(* Claims about extractEyeGaze.                                             *)
(***************************************************************************)
\* the activation the frame carries for the channel, 0 when absent
Look(channel) == IF channel \in DOMAIN gazeFrame THEN gazeFrame[channel] ELSE Zero

C24_HeldForTenMisses ==
  (validPoses > 0 /\ missesSinceValid > 0) =>
    IF missesSinceValid <= POSE_HOLD_FRAMES
    THEN poseReturned = poseRefs.lastValidResult
    ELSE poseReturned = Null


(***************************************************************************)
(* Claims about detectFace.                                                 *)
(***************************************************************************)
StrictlyIncreasing(seq) == \A i, j \in DOMAIN seq : i < j => seq[i] < seq[j]

\* C25: the timestamps passed to detectForVideo are strictly increasing; a
\* call whose timestamp is not above the last accepted one returns null and
\* passes nothing to the detector; no call, a throwing one included, moves
\* the last accepted timestamp back.
C25_TimestampsStrictlyIncreasing ==
  [][ faceCalls' = faceCalls + 1 =>
        /\ StrictlyIncreasing(passedTimestamps')
        /\ faceCall'.timestamp <= lastTimestampRef =>
             (faceReturned' = Null /\ passedTimestamps' = passedTimestamps)
        /\ lastTimestampRef' >= lastTimestampRef
        /\ passedTimestamps' # passedTimestamps =>
             lastTimestampRef' = faceCall'.timestamp ]_vars

\* two timestamps were accepted, then a call on the second one was refused
C25_Witness ==
  /\ Len(passedTimestamps) = 2
  /\ faceCall # Null
  /\ faceCall.timestamp = lastTimestampRef
  /\ faceCall.timestamp = passedTimestamps[2]
  /\ faceCall.readyState = 4
  /\ ~faceCall.throws
  /\ faceReturned = Null
  /\ faceCalls = 4


(***************************************************************************)
(* Claims about useWebcam.                                                  *)
(***************************************************************************)
\* C28: whenever getUserMedia resolves relative to the cleanup, no stream
\* acquired by an effect instance is live once the instance is cleaned up.
C28_NoLiveStreamAfterCleanup ==
  \A i \in DOMAIN webcamEffects :
    (webcamEffects[i].cleaned /\ webcamEffects[i].stream # Null) =>
      webcamEffects[i].stream \notin liveStreams

\* C29: whatever the order of readiness changes, landmarker loads,
\* body-tracking toggles, runs of the start effect and frame ticks, at most
\* one animation-frame callback of the detection loop is pending, and it is
\* the one whose handle animationRef holds.
C29_AtMostOnePendingFrame ==
  /\ Cardinality(pendingFrames) <= 1
  /\ \A f \in pendingFrames : f.handle = animationRef

\* a loop that tracked the body was running, body tracking was switched off,
\* and the start effect has cancelled its frame and requested one for the new
\* runDetection, which has not run yet
C29_Witness ==
  /\ poseResult # Null
  /\ ~bodyTrackingEnabled
  /\ ~startEffectDue
  /\ pendingFrames = {[handle |-> animationRef, callback |-> runDetection]}
  /\ ~runDetection.bodyTrackingEnabled

\* C30: in every step the pose data handed to the avatar stays as it is or
\* becomes the non-null pose extracted from what detectPose just returned;
\* once non-null it is never null again.
C30_PoseDataOnlyReplacedByNewPose ==
  [][ /\ poseData # Null => poseData' # Null
      /\ poseData' # poseData =>
            /\ poseReturned' # Null
            /\ poseData' # Null
            /\ poseData' = extractPoseData(poseReturned') ]_vars

\* the hold expired (detectPose returned null after a pose), body tracking
\* was switched off, and the last frame ran the restarted loop, which cleared
\* the overlay's pose result: the avatar still has its pose data
C30_Witness ==
  /\ poseData # Null
  /\ poseReturned = Null
  /\ poseRefs.framesSinceValidPose >= POSE_HOLD_FRAMES
  /\ ~bodyTrackingEnabled
  /\ poseResult = Null
  /\ \E f \in pendingFrames : ~f.callback.bodyTrackingEnabled
  /\ lastTimestampRef = nextHandle - 1

=============================================================================
